---- MODULE Spec2Model ----
(***************************************************************************)
(* Cushion: a CouchDB-style document database over Deno KV.                *)
(*                                                                         *)
(* The model follows src/src/cushion.ts and src/src/utils.ts.  The KV      *)
(* store is one function from key tuples to entries; every handler of the  *)
(* Cushion class is cut at its awaits: one action runs from the moment a   *)
(* handler resumes up to and including the next KV operation it issues.    *)
(***************************************************************************)
EXTENDS Integers, Sequences, FiniteSets, TLC

----------------------------------------------------------------------------
(* Bounds of the model *)

\* Number of document commits (versionstamps issued) in one behaviour.
MaxCommits == 3

----------------------------------------------------------------------------
(* Input sets *)

Namespace == "default"
Procs == {"p1", "p2"}
DocIds == {"a", "b"}
UUIDs == {"u"}
ViewNames == {"v"}

\* A property that an object does not carry (JavaScript undefined).
Absent == "<undefined>"

\* The versionstamp of a key that is not stored (null); stored keys carry
\* the number of the commit that wrote them.
NullStamp == 0

Bodies ==
    { [type |-> "user", name |-> "Alice"],
      [type |-> "user", name |-> "Bob"],
      [type |-> "post", name |-> "Alice"] }

NoBody == [type |-> Absent, name |-> Absent]

\* The null document (get of a missing id, updateViewsForDoc(id, null)).
NullDoc == [_id |-> Absent, _rev |-> NullStamp, body |-> NoBody]


----------------------------------------------------------------------------
(* Key layout: src/src/utils.ts *)

getDocPrefix(namespace) == <<namespace, "doc">>

getViewRefPrefix(namespace, viewName) == <<namespace, "viewref", viewName>>

getDocumentKey(namespace, id) == getDocPrefix(namespace) \o <<id>>

getDesignKey(namespace, id) == <<namespace, "design", id>>

getViewKey(namespace, viewName) == <<namespace, "view", viewName>>

getViewRefKey(namespace, viewName, docId) ==
    getViewRefPrefix(namespace, viewName) \o <<docId>>

----------------------------------------------------------------------------
(* Order of keys in the store.  Key parts of the model are strings; Deno   *)
(* KV orders strings by their bytes and tuples part by part, a proper      *)
(* prefix before its extensions.  StringOrder lists every string the model *)
(* uses as a key part in byte order; after them come the key parts that   *)
(* are numbers, which Deno KV orders after every string: "#Infinity" and   *)
(* "#NaN" stand for the numbers Infinity and NaN.                          *)

StringOrder ==
    << "", "Alice", "Bob", "a", "b", "default", "design", "doc",
       "other", "post", "u", "user", "v", "view", "viewref", "w",
       "#Infinity", "#NaN" >>

Rank(s) == CHOOSE i \in 1..Len(StringOrder) : StringOrder[i] = s

RECURSIVE KeyLess(_, _)
KeyLess(k1, k2) ==
    IF k1 = <<>> THEN k2 # <<>>
    ELSE IF k2 = <<>> THEN FALSE
    ELSE IF Head(k1) = Head(k2) THEN KeyLess(Tail(k1), Tail(k2))
    ELSE Rank(Head(k1)) < Rank(Head(k2))

HasPrefix(key, prefix) ==
    /\ Len(key) >= Len(prefix)
    /\ SubSeq(key, 1, Len(prefix)) = prefix

RECURSIVE SortKeys(_)
SortKeys(S) ==
    IF S = {} THEN <<>>
    ELSE LET m == CHOOSE k \in S : \A o \in S \ {k} : KeyLess(k, o)
         IN  <<m>> \o SortKeys(S \ {m})

----------------------------------------------------------------------------
(* Map functions.  Emissions(fn, doc) is the sequence of emit(key, value)  *)
(* calls fn makes on doc.  A key is a single part or an array of parts.    *)

Scalar(k) == [array |-> FALSE, v |-> k]
Array(ks) == [array |-> TRUE, v |-> ks]

Emissions(fn, doc) ==
    CASE fn = "byName" ->
           IF doc.body.type # "user" THEN <<>>
           ELSE << [key |-> Scalar(doc.body.name), value |-> Absent] >>
      [] fn = "byTypeName" ->
           << [key |-> Array(<<doc.body.type, doc.body.name>>),
               value |-> doc.body.name] >>
      [] fn = "byNameAndType" ->
           << [key |-> Scalar(doc.body.name), value |-> Absent],
              [key |-> Array(<<doc.body.name, doc.body.type>>),
               value |-> doc.body.type] >>
      [] fn = "byNameTwice" ->
           << [key |-> Scalar(doc.body.name), value |-> Absent],
              [key |-> Scalar(doc.body.name), value |-> doc.body.type] >>

\* fn.toString(): the source text of a map function.
FunctionText(fn) ==
    CASE fn = "byName" -> "(doc, emit) => { if (doc.type !== 'user') return; emit(doc.name); }"
      [] fn = "byTypeName" -> "(doc, emit) => { emit([doc.type, doc.name], doc.name); }"
      [] fn = "byNameAndType" ->
           "(doc, emit) => { emit(doc.name); emit([doc.name, doc.type], doc.type); }"
      [] fn = "byNameTwice" ->
           "(doc, emit) => { emit(doc.name); emit(doc.name, doc.type); }"

\* #hashFunction: the hex SHA-256 digest of the function's text.
hashFunction(fn) == <<"sha256", FunctionText(fn)>>

----------------------------------------------------------------------------
VARIABLES
    kv,          \* Deno KV: key tuple -> [value, versionstamp]
    clock,       \* the last versionstamp the store issued
    views,       \* #views, in insertion order: <<[name, map, reduce], ...>>
    pc,          \* per caller: where its running handler is suspended
    loc,         \* per caller: the parameters and locals of its running handler
    out,         \* the call that finished last: who, what, and how it ended
    lastWrite,   \* history: per id, the last commit on its document key
    issued,      \* history: per id, the revs insert and replace returned for it
    spent        \* history: the revs a replace or remove succeeded with

vars == <<kv, clock, views, pc, loc, out, lastWrite, issued, spent>>

----------------------------------------------------------------------------
(* The KV store *)

Present(store, key) == key \in DOMAIN store

Stamp(store, key) ==
    IF Present(store, key) THEN store[key].versionstamp ELSE NullStamp

IsDocKey(key) == HasPrefix(key, getDocPrefix(Namespace))

SetOp(key, value) == [op |-> "set", key |-> key, value |-> value]
DeleteOp(key) == [op |-> "delete", key |-> key, value |-> Absent]

\* The program reads the versionstamp of document keys only, so the model
\* keeps the commit's versionstamp on those and NullStamp on the others.
ApplyOp(store, o, stamp) ==
    IF o.op = "set"
    THEN [k \in DOMAIN store \cup {o.key} |->
            IF k = o.key
            THEN [value |-> o.value,
                  versionstamp |-> IF IsDocKey(k) THEN stamp ELSE NullStamp]
            ELSE store[k]]
    ELSE [k \in DOMAIN store \ {o.key} |-> store[k]]

RECURSIVE ApplyOps(_, _, _)
ApplyOps(store, ops, stamp) ==
    IF ops = <<>> THEN store
    ELSE ApplyOps(ApplyOp(store, Head(ops), stamp), Tail(ops), stamp)

\* kv.atomic().check(...).set(...).delete(...).commit(): all checks hold and
\* every mutation is applied, or nothing is.
ChecksHold(store, checks) ==
    \A i \in 1..Len(checks) : Stamp(store, checks[i].key) = checks[i].versionstamp

AtomicCommit(store, checks, ops, stamp) ==
    IF ChecksHold(store, checks)
    THEN [ok |-> TRUE, store |-> ApplyOps(store, ops, stamp), versionstamp |-> stamp]
    ELSE [ok |-> FALSE, store |-> store, versionstamp |-> NullStamp]

\* Mutant: a list that matches the prefix from its second part on, whatever
\* the namespace of the key.
ListAnyNamespace(store, prefix) ==
    SortKeys({k \in DOMAIN store :
                /\ Len(k) > Len(prefix)
                /\ SubSeq(k, 2, Len(prefix)) = Tail(prefix)})

\* kv.list({prefix}): the keys under the prefix, in key order.  The stores of
\* the model hold fewer entries than one batch of the iterator, so a list is
\* read in one piece when its first entry is asked for.
List(store, prefix) ==
    SortKeys({k \in DOMAIN store : HasPrefix(k, prefix) /\ k # prefix})

\* The values of the entries kv.list({prefix}) yields.
ListValues(store, prefix) ==
    LET keys == List(store, prefix)
    IN  [i \in 1..Len(keys) |-> store[keys[i]].value]

----------------------------------------------------------------------------
(* Finished calls *)

NoDesign == [signature |-> <<>>, state |-> Absent]

\* What a defineView call did: how often it ran the map function, whether it
\* wrote to the store, and the design record it was called on.
Info(mapCalls, wrote, before) ==
    [mapCalls |-> mapCalls, wrote |-> wrote, before |-> before]

NoInfo == Info(0, FALSE, NoDesign)

Outcome(p, op, id, rev, ok, error, newRev, doc, info) ==
    [proc |-> p, op |-> op, id |-> id, rev |-> rev, ok |-> ok, error |-> error,
     newRev |-> newRev, doc |-> doc, info |-> info]

Thrown(p, op, id, rev, error) ==
    Outcome(p, op, id, rev, FALSE, error, NullStamp, NullDoc, NoInfo)

NoOutcome == Thrown(Absent, "none", Absent, NullStamp, "")

NoLocals == [handler |-> "none"]

NoWrite == [op |-> "none", rev |-> NullStamp, body |-> NoBody]

AllIds == DocIds \cup UUIDs

Init ==
    /\ kv = <<>>
    /\ clock = NullStamp
    /\ views = <<>>
    /\ pc = [p \in Procs |-> "idle"]
    /\ loc = [p \in Procs |-> NoLocals]
    /\ out = NoOutcome
    /\ lastWrite = [d \in AllIds |-> NoWrite]
    /\ issued = [d \in AllIds |-> {}]
    /\ spent = {}

\* A caller makes a call, and a handler goes on, only once the result of the
\* call that finished last has been taken.
Idle(p) == pc[p] = "idle" /\ out = NoOutcome

At(p, label) == pc[p] = label /\ out = NoOutcome

----------------------------------------------------------------------------
(* get: cushion.ts 60-72 *)

\* The stored value with _rev set to the versionstamp, or null.
GetValue(store, id) ==
    LET key == getDocumentKey(Namespace, id)
    IN  IF ~Present(store, key) THEN NullDoc
        ELSE [store[key].value EXCEPT !._rev = store[key].versionstamp]

Get(p, id) ==
    /\ Idle(p)
    /\ out' = Outcome(p, "get", id, NullStamp, TRUE, "", NullStamp,
                       GetValue(kv, id), NoInfo)
    /\ UNCHANGED <<kv, clock, views, pc, loc, lastWrite, issued, spent>>

----------------------------------------------------------------------------
(* insert, replace, remove: the part of each handler up to its commit *)

\* The parameters of the mutation and the locals updateViewsForDoc starts
\* with; registry is history: #views as it is when the loop over it starts.
MutationLocals(op, docId, rev, newRev, doc) ==
    [handler |-> op, docId |-> docId, rev |-> rev, newRev |-> newRev,
     doc |-> doc, next |-> 1, viewName |-> Absent, mapper |-> Absent,
     hasExisting |-> FALSE, existing |-> <<>>, registry |-> <<>>]

\* cushion.ts 81: doc._id || crypto.randomUUID().  A random id is one that
\* was never used.
InsertIds(doc) ==
    IF doc._id # Absent /\ doc._id # "" THEN {doc._id}
    ELSE {u \in UUIDs : lastWrite[u] = NoWrite}

\* cushion.ts 85: Object.hasOwn(doc, "_rev")
HasRev(doc) == doc._rev # NullStamp

\* Mutant: the payload is stored as given.
InitialiserAsGiven(doc, id) == doc

\* cushion.ts 90: { ...doc, _id: id }
Initialiser(doc, id) == [doc EXCEPT !._id = id]

\* Mutant: _id is set but the payload's own _rev is kept.
UpdatedKeepsRev(doc, id) == [doc EXCEPT !._id = id]

\* Mutant: _rev is stripped but the payload's own _id is kept.
UpdatedKeepsId(doc, id) == [doc EXCEPT !._rev = NullStamp]

\* cushion.ts 123-124: const { _rev, ...rest } = doc; { ...rest, _id: id }
Updated(doc, id) == [doc EXCEPT !._rev = NullStamp, !._id = id]

\* cushion.ts 102-105, 138: { ...stored, _rev: result.versionstamp }
WithRev(stored, stamp) == [stored EXCEPT !._rev = stamp]

\* Mutant: the set is committed without the check that the key is absent.
InsertCommitUnchecked(store, key, initialiser, stamp) ==
    AtomicCommit(store, <<>>, <<SetOp(key, initialiser)>>, stamp)

\* cushion.ts 93-96
InsertCommit(store, key, initialiser, stamp) ==
    AtomicCommit(store, <<[key |-> key, versionstamp |-> NullStamp]>>,
                 <<SetOp(key, initialiser)>>, stamp)

\* Mutant: the set is committed without the check of the rev.
ReplaceCommitUnchecked(store, key, rev, updated, stamp) ==
    AtomicCommit(store, <<>>, <<SetOp(key, updated)>>, stamp)

\* Mutant: the commit checks that the document exists, not which rev it has.
ReplaceCommitAnyRev(store, key, rev, updated, stamp) ==
    IF Present(store, key)
    THEN AtomicCommit(store, <<>>, <<SetOp(key, updated)>>, stamp)
    ELSE AtomicCommit(store, <<[key |-> key, versionstamp |-> rev]>>,
                      <<SetOp(key, updated)>>, stamp)

\* cushion.ts 127-130
ReplaceCommit(store, key, rev, updated, stamp) ==
    AtomicCommit(store, <<[key |-> key, versionstamp |-> rev]>>,
                 <<SetOp(key, updated)>>, stamp)

\* Mutant: the delete is issued on its own, before the check is committed.
RemoveCommitDeletesFirst(store, key, rev, stamp) ==
    LET r == AtomicCommit(store, <<[key |-> key, versionstamp |-> rev]>>, <<>>, stamp)
    IN  [r EXCEPT !.store = ApplyOp(store, DeleteOp(key), stamp)]

\* Mutant: the rev is checked but the delete is left out of the batch.
RemoveCommitKeepsDoc(store, key, rev, stamp) ==
    AtomicCommit(store, <<[key |-> key, versionstamp |-> rev]>>, <<>>, stamp)

\* cushion.ts 151-153
RemoveCommit(store, key, rev, stamp) ==
    AtomicCommit(store, <<[key |-> key, versionstamp |-> rev]>>,
                 <<DeleteOp(key)>>, stamp)

\* A handler that threw, leaving the store as store: the caller is idle again.
Throw(p, op, id, rev, error, store) ==
    /\ out' = Thrown(p, op, id, rev, error)
    /\ kv' = store
    /\ UNCHANGED <<clock, views, pc, loc, lastWrite, issued, spent>>

\* A handler whose commit succeeded: it goes on to updateViewsForDoc.
Committed(p, op, id, rev, body, r, viewDoc) ==
    /\ clock < MaxCommits
    /\ kv' = r.store
    /\ clock' = r.versionstamp
    /\ lastWrite' = [lastWrite EXCEPT ![id] =
                        [op |-> op, rev |-> r.versionstamp, body |-> body]]
    /\ issued' = IF op = "remove" THEN issued
                 ELSE [issued EXCEPT ![id] = @ \cup {r.versionstamp}]
    /\ spent' = IF op = "insert" THEN spent ELSE spent \cup {rev}
    /\ pc' = [pc EXCEPT ![p] = "uv_next"]
    /\ loc' = [loc EXCEPT ![p] = MutationLocals(op, id, rev, r.versionstamp, viewDoc)]
    /\ UNCHANGED <<views, out>>

\* cushion.ts 79-108
Insert(p, doc) ==
    /\ Idle(p)
    /\ \E id \in InsertIds(doc) :
         LET key == getDocumentKey(Namespace, id)
             initialiser == Initialiser(doc, id)
             r == InsertCommit(kv, key, initialiser, clock + 1)
         IN  IF HasRev(doc)
             THEN Throw(p, "insert", id, NullStamp, "UnexpectedRev", kv)
             ELSE IF ~r.ok
             THEN Throw(p, "insert", id, NullStamp, "DuplicateDocument", r.store)
             ELSE Committed(p, "insert", id, NullStamp, doc.body, r,
                            WithRev(initialiser, r.versionstamp))

\* cushion.ts 114-141
Replace(p, id, rev, doc) ==
    /\ Idle(p)
    /\ LET key == getDocumentKey(Namespace, id)
           updated == Updated(doc, id)
           r == ReplaceCommit(kv, key, rev, updated, clock + 1)
       IN  IF ~r.ok
           THEN Throw(p, "replace", id, rev, "RevisionConflict", r.store)
           ELSE Committed(p, "replace", id, rev, doc.body, r,
                          WithRev(updated, r.versionstamp))

\* cushion.ts 147-164
Remove(p, id, rev) ==
    /\ Idle(p)
    /\ LET key == getDocumentKey(Namespace, id)
           r == RemoveCommit(kv, key, rev, clock + 1)
       IN  IF ~r.ok
           THEN Throw(p, "remove", id, rev, "RevisionConflict", r.store)
           ELSE Committed(p, "remove", id, rev, NoBody, r, NullDoc)

----------------------------------------------------------------------------
(* updateViewsForDoc: cushion.ts 282-321 *)

\* cushion.ts 250, 310: Array.isArray(key) ? key : [key]
keyParts(key) == IF key.array THEN key.v ELSE <<key.v>>

\* cushion.ts 251, 311: [...viewPrefix, ...keyParts, docId]
ViewRowKey(viewPrefix, key, docId) == viewPrefix \o keyParts(key) \o <<docId>>

\* cushion.ts 253, 313: { value: value ?? null, doc }
RowPayload(value, doc) ==
    [value |-> IF value = Absent THEN "null" ELSE value, doc |-> doc]

\* What one run of the mapper over doc adds to a batch: a set per emission.
EmitOps(viewPrefix, mapper, doc, docId) ==
    LET es == Emissions(mapper, doc)
    IN  [i \in 1..Len(es) |->
            SetOp(ViewRowKey(viewPrefix, es[i].key, docId),
                  RowPayload(es[i].value, doc))]

\* ... and the keys it pushes on emittedKeys.
EmittedKeys(viewPrefix, mapper, doc, docId) ==
    LET es == Emissions(mapper, doc)
    IN  [i \in 1..Len(es) |-> ViewRowKey(viewPrefix, es[i].key, docId)]

\* cushion.ts 292-298: a delete for every key the back-reference names.
DeleteOldRows(hasExisting, existing) ==
    IF hasExisting
    THEN [i \in 1..Len(existing) |-> DeleteOp(existing[i])]
    ELSE <<>>

\* Mutant: the rows the back-reference names are not deleted.
ViewBatchKeepsOldRows(viewName, mapper, docId, doc, hasExisting, existing) ==
    LET viewPrefix == getViewKey(Namespace, viewName)
        refKey == getViewRefKey(Namespace, viewName, docId)
    IN  IF doc = NullDoc
        THEN <<DeleteOp(refKey)>>
        ELSE EmitOps(viewPrefix, mapper, doc, docId)
             \o <<SetOp(refKey, EmittedKeys(viewPrefix, mapper, doc, docId))>>

\* Mutant: the batch deletes and sets the rows but not the back-reference.
ViewBatchWithoutRef(viewName, mapper, docId, doc, hasExisting, existing) ==
    LET viewPrefix == getViewKey(Namespace, viewName)
    IN  IF doc = NullDoc
        THEN DeleteOldRows(hasExisting, existing)
        ELSE DeleteOldRows(hasExisting, existing)
             \o EmitOps(viewPrefix, mapper, doc, docId)

\* cushion.ts 290-319: the batch updateViewsForDoc commits for one view.
ViewBatch(viewName, mapper, docId, doc, hasExisting, existing) ==
    LET viewPrefix == getViewKey(Namespace, viewName)
        refKey == getViewRefKey(Namespace, viewName, docId)
    IN  IF doc = NullDoc
        THEN DeleteOldRows(hasExisting, existing) \o <<DeleteOp(refKey)>>
        ELSE DeleteOldRows(hasExisting, existing)
             \o EmitOps(viewPrefix, mapper, doc, docId)
             \o <<SetOp(refKey, EmittedKeys(viewPrefix, mapper, doc, docId))>>

\* What insert, replace and remove return (107, 140, 163).
MutationResult(p, l) ==
    Outcome(p, l.handler, l.docId, l.rev, TRUE, "", l.newRev, NullDoc, NoInfo)

\* The loop head (286) and the read of the back-reference (293).  #views is
\* a Map: its iterator is live, so an entry is read when the loop reaches it.
\* When the iterator is exhausted the handler returns to its caller, which
\* returns its result.
UpdateViewsNext(p) ==
    /\ At(p, "uv_next")
    /\ LET l == loc[p]
       IN  IF l.next > Len(views)
           THEN /\ pc' = [pc EXCEPT ![p] = "idle"]
                /\ out' = MutationResult(p, l)
                /\ loc' = [loc EXCEPT ![p] = NoLocals]
                /\ UNCHANGED <<kv, clock, views, lastWrite, issued, spent>>
           ELSE LET view == views[l.next]
                    refKey == getViewRefKey(Namespace, view.name, l.docId)
                IN  /\ loc' = [loc EXCEPT ![p] =
                                 [l EXCEPT !.viewName = view.name,
                                           !.mapper = view.map,
                                           !.registry = IF l.next = 1 THEN views ELSE @,
                                           !.hasExisting = Present(kv, refKey),
                                           !.existing = IF Present(kv, refKey)
                                                        THEN kv[refKey].value
                                                        ELSE <<>>]]
                    /\ pc' = [pc EXCEPT ![p] = "uv_commit"]
                    /\ UNCHANGED <<kv, clock, views, out, lastWrite, issued, spent>>

\* The commit of the view's batch (303, 319).
UpdateViewsCommit(p) ==
    /\ At(p, "uv_commit")
    /\ LET l == loc[p]
           ops == ViewBatch(l.viewName, l.mapper, l.docId, l.doc,
                            l.hasExisting, l.existing)
       IN  /\ kv' = AtomicCommit(kv, <<>>, ops, NullStamp).store
           /\ loc' = [loc EXCEPT ![p] = [l EXCEPT !.next = l.next + 1]]
           /\ pc' = [pc EXCEPT ![p] = "uv_next"]
           /\ UNCHANGED <<clock, views, out, lastWrite, issued, spent>>

----------------------------------------------------------------------------
(* defineView: cushion.ts 178-206 *)

\* Map.set (184): a known name keeps its place, a new one goes last.
RegistrySet(registry, name, logic) ==
    IF \E i \in 1..Len(registry) : registry[i].name = name
    THEN [i \in 1..Len(registry) |->
            IF registry[i].name = name THEN logic ELSE registry[i]]
    ELSE Append(registry, logic)

\* The parameters and locals of defineView and rebuildView; info is history.
DefineLocals(viewName, mapper, before) ==
    [handler |-> "defineView", viewName |-> viewName, mapper |-> mapper,
     signature |-> <<>>, hasDesign |-> FALSE, design |-> NoDesign,
     prefix |-> 1, buf |-> <<>>, batch |-> <<>>, count |-> 0,
     info |-> Info(0, FALSE, before)]

DesignValue(store, viewName) ==
    LET design == getDesignKey(Namespace, viewName)
    IN  IF Present(store, design) THEN store[design].value ELSE NoDesign

\* 184-189: register the logic, then wait for the digest of the map function.
DefineView(p, viewName, mapper, reducer) ==
    /\ Idle(p)
    /\ views' = RegistrySet(views, viewName,
                            [name |-> viewName, map |-> mapper, reduce |-> reducer])
    /\ pc' = [pc EXCEPT ![p] = "dv_design"]
    /\ loc' = [loc EXCEPT ![p] =
                 DefineLocals(viewName, mapper, DesignValue(kv, viewName))]
    /\ UNCHANGED <<kv, clock, out, lastWrite, issued, spent>>

\* 189-192: the signature is known; read the design record.
DefineViewDesign(p) ==
    /\ At(p, "dv_design")
    /\ LET l == loc[p]
           design == getDesignKey(Namespace, l.viewName)
       IN  loc' = [loc EXCEPT ![p] =
                     [l EXCEPT !.signature = hashFunction(l.mapper),
                               !.hasDesign = Present(kv, design),
                               !.design = DesignValue(kv, l.viewName)]]
    /\ pc' = [pc EXCEPT ![p] = "dv_check"]
    /\ UNCHANGED <<kv, clock, views, out, lastWrite, issued, spent>>

\* Mutant: the signature is never found up to date.
SignatureNeverUpToDate(l) == FALSE

\* 195, 200: value?.signature === viewSignature, value?.state === "building"
SignatureUpToDate(l) == l.hasDesign /\ l.design.signature = l.signature
AlreadyBuilding(l) == l.hasDesign /\ l.design.state = "building"

\* defineView returns (196, 201, 205).
DefineResult(p, l) ==
    Outcome(p, "defineView", l.viewName, NullStamp, TRUE, "", NullStamp, NullDoc,
            l.info)

\* 194-205: return when the view is up to date or being built; otherwise
\* rebuildView starts and asks for the first entry under the view prefix (223).
DefineViewCheck(p) ==
    /\ At(p, "dv_check")
    /\ LET l == loc[p]
       IN  IF SignatureUpToDate(l) \/ AlreadyBuilding(l)
           THEN /\ pc' = [pc EXCEPT ![p] = "idle"]
                /\ out' = DefineResult(p, l)
                /\ loc' = [loc EXCEPT ![p] = NoLocals]
                /\ UNCHANGED <<kv, clock, views, lastWrite, issued, spent>>
           ELSE /\ pc' = [pc EXCEPT ![p] = "rb_delete"]
                /\ loc' = [loc EXCEPT ![p] =
                             [l EXCEPT !.buf = List(kv, getViewKey(Namespace, l.viewName))]]
                /\ UNCHANGED <<kv, clock, views, out, lastWrite, issued, spent>>

---------------------------------------------------------------------------------------------------------------------------------------------------
(* rebuildView: cushion.ts 208-280 *)

\* 213, scaled down: the model's stores hold a handful of keys.
BATCH_SIZE == 2

Min(a, b) == IF a < b THEN a ELSE b

\* Mutant: the listed keys are counted but not deleted.
DeleteBatchEmpty(keys, n) == <<>>

\* 224: a delete for each of the first n listed keys.
DeleteBatch(keys, n) == [i \in 1..n |-> DeleteOp(keys[i])]

Wrote(info) == [info EXCEPT !.wrote = TRUE]

\* 222-237: the delete loop from where it resumes to its next KV operation:
\* a commit of a full batch (228), the list of the back-reference prefix
\* (223, second prefix), the commit of the rest (236) or the list of the
\* documents (241, 246).
RebuildDelete(p) ==
    /\ At(p, "rb_delete")
    /\ LET l == loc[p]
           n == Min(Len(l.buf), BATCH_SIZE - l.count)
           batch == l.batch \o DeleteBatch(l.buf, n)
           count == l.count + n
           rest == SubSeq(l.buf, n + 1, Len(l.buf))
       IN  IF count >= BATCH_SIZE
           THEN /\ kv' = AtomicCommit(kv, <<>>, batch, NullStamp).store
                /\ loc' = [loc EXCEPT ![p] =
                             [l EXCEPT !.buf = rest, !.batch = <<>>, !.count = 0,
                                       !.info = Wrote(l.info)]]
                /\ UNCHANGED pc
           ELSE IF l.prefix = 1
           THEN /\ loc' = [loc EXCEPT ![p] =
                             [l EXCEPT !.prefix = 2, !.batch = batch, !.count = count,
                                       !.buf = List(kv, getViewRefPrefix(Namespace, l.viewName))]]
                /\ UNCHANGED <<kv, pc>>
           ELSE IF count > 0
           THEN /\ kv' = AtomicCommit(kv, <<>>, batch, NullStamp).store
                /\ loc' = [loc EXCEPT ![p] =
                             [l EXCEPT !.buf = <<>>, !.batch = <<>>, !.count = 0,
                                       !.info = Wrote(l.info)]]
                /\ pc' = [pc EXCEPT ![p] = "rb_docs"]
           ELSE /\ loc' = [loc EXCEPT ![p] =
                             [l EXCEPT !.batch = <<>>, !.count = 0,
                                       !.buf = ListValues(kv, getDocPrefix(Namespace))]]
                /\ pc' = [pc EXCEPT ![p] = "rb_map"]
                /\ UNCHANGED kv
    /\ UNCHANGED <<clock, views, out, lastWrite, issued, spent>>

\* 240-246: after the last delete commit, list the documents.
RebuildDocs(p) ==
    /\ At(p, "rb_docs")
    /\ loc' = [loc EXCEPT ![p] =
                 [loc[p] EXCEPT !.buf = ListValues(kv, getDocPrefix(Namespace))]]
    /\ pc' = [pc EXCEPT ![p] = "rb_map"]
    /\ UNCHANGED <<kv, clock, views, out, lastWrite, issued, spent>>

\* 247-261: what one document adds to the batch.
DocOps(viewName, mapper, doc) ==
    LET viewPrefix == getViewKey(Namespace, viewName)
        refKey == getViewRefKey(Namespace, viewName, doc._id)
    IN  EmitOps(viewPrefix, mapper, doc, doc._id)
        \o <<SetOp(refKey, EmittedKeys(viewPrefix, mapper, doc, doc._id))>>

\* 246-268: the documents of docs, in order, until a batch is full (263) or
\* the documents are exhausted.
RECURSIVE MapLoop(_, _, _, _, _, _)
MapLoop(viewName, mapper, docs, batch, batchSize, mapCalls) ==
    IF docs = <<>> \/ batchSize >= BATCH_SIZE
    THEN [docs |-> docs, batch |-> batch, batchSize |-> batchSize,
          mapCalls |-> mapCalls]
    ELSE LET ops == DocOps(viewName, mapper, Head(docs))
         IN  MapLoop(viewName, mapper, Tail(docs), batch \o ops,
                     batchSize + Len(ops), mapCalls + 1)

\* 276-279
ReadyOp(viewName, signature) ==
    SetOp(getDesignKey(Namespace, viewName),
          [signature |-> signature, state |-> "ready"])

\* 246-279: the map loop from where it resumes to its next KV operation: a
\* commit of a full batch (264), the commit of the rest (271) or, with
\* nothing left to commit, the set of the design record (276).
RebuildMap(p) ==
    /\ At(p, "rb_map")
    /\ LET l == loc[p]
           r == MapLoop(l.viewName, l.mapper, l.buf, l.batch, l.count,
                        l.info.mapCalls)
           info == Wrote([l.info EXCEPT !.mapCalls = r.mapCalls])
       IN  IF r.batchSize > 0
           THEN /\ kv' = AtomicCommit(kv, <<>>, r.batch, NullStamp).store
                /\ loc' = [loc EXCEPT ![p] =
                             [l EXCEPT !.buf = r.docs, !.batch = <<>>, !.count = 0,
                                       !.info = info]]
                /\ pc' = [pc EXCEPT ![p] =
                            IF r.batchSize >= BATCH_SIZE THEN "rb_map" ELSE "rb_ready"]
           ELSE /\ kv' = ApplyOp(kv, ReadyOp(l.viewName, l.signature), NullStamp)
                /\ loc' = [loc EXCEPT ![p] = [l EXCEPT !.info = info]]
                /\ pc' = [pc EXCEPT ![p] = "rb_done"]
    /\ UNCHANGED <<clock, views, out, lastWrite, issued, spent>>

\* 274-279: mark the view as ready.
RebuildReady(p) ==
    /\ At(p, "rb_ready")
    /\ kv' = ApplyOp(kv, ReadyOp(loc[p].viewName, loc[p].signature), NullStamp)
    /\ pc' = [pc EXCEPT ![p] = "rb_done"]
    /\ UNCHANGED <<clock, views, loc, out, lastWrite, issued, spent>>

\* 280, 205: rebuildView returns, and defineView with it.
RebuildDone(p) ==
    /\ At(p, "rb_done")
    /\ pc' = [pc EXCEPT ![p] = "idle"]
    /\ out' = DefineResult(p, loc[p])
    /\ loc' = [loc EXCEPT ![p] = NoLocals]
    /\ UNCHANGED <<kv, clock, views, lastWrite, issued, spent>>

----------------------------------------------------------------------------
(* The callers *)

\* The caller takes the result (or the error) of the call that just finished.
TakeResult ==
    /\ out # NoOutcome
    /\ out' = NoOutcome
    /\ UNCHANGED <<kv, clock, views, pc, loc, lastWrite, issued, spent>>

\* Payloads with and without _id and _rev.
PayloadsOf(ids, bodies) == [_id : ids, _rev : {NullStamp, 1}, body : bodies]

\* One step of caller p, with the arguments of a new call drawn from in.  The
\* revs a caller can pass are those the store has issued.
Step(p, in) ==
    \/ \E id \in in.ids : Get(p, id)
    \/ \E doc \in in.payloads : Insert(p, doc)
    \/ \E id \in in.ids, rev \in 1..clock, doc \in in.payloads :
          Replace(p, id, rev, doc)
    \/ \E id \in in.ids, rev \in 1..clock : Remove(p, id, rev)
    \/ UpdateViewsNext(p)
    \/ UpdateViewsCommit(p)
    \/ \E v \in ViewNames, f \in in.logics : DefineView(p, v, f.map, f.reduce)
    \/ DefineViewDesign(p)
    \/ DefineViewCheck(p)
    \/ RebuildDelete(p)
    \/ RebuildDocs(p)
    \/ RebuildMap(p)
    \/ RebuildReady(p)
    \/ RebuildDone(p)

\* Two callers on one document and one view, their calls interleaving at
\* every await.
ConcurrentInputs ==
    [ids |-> {"a"},
     payloads |-> PayloadsOf({"a"},
                             {[type |-> "user", name |-> "Alice"],
                              [type |-> "post", name |-> "Alice"]}),
     logics |-> {[map |-> "byName", reduce |-> Absent]}]

Next == TakeResult \/ \E p \in Procs : Step(p, ConcurrentInputs)

Spec == Init /\ [][Next]_vars

\* One caller that awaits each call before it makes the next one.
SequentialInputs ==
    [ids |-> {"a"} \cup UUIDs,
     payloads |-> PayloadsOf({"a", Absent, ""}, Bodies),
     logics |-> {[map |-> "byName", reduce |-> Absent],
                 [map |-> "byTypeName", reduce |-> "count"]}]

NextSeq == TakeResult \/ Step("p1", SequentialInputs)

SpecSeq == Init /\ [][NextSeq]_vars

----------------------------------------------------------------------------
(* JavaScript values passed to the query builder.  A number is kept in     *)
(* halves (h = 2 * value) so that fractions are arguments too; NaN and the *)
(* infinities are values of their own.                                     *)

Num(h) == [t |-> "num", h |-> h]
JsInt(n) == Num(2 * n)
NaN == [t |-> "nan", h |-> 0]
Infinity == [t |-> "inf", h |-> 0]
NegInfinity == [t |-> "ninf", h |-> 0]
Bool(b) == [t |-> "bool", h |-> IF b THEN 1 ELSE 0]
Undefined == [t |-> "undefined", h |-> 0]
Other == [t |-> "other", h |-> 0]

\* The width of the integers ~~ converts to: 32 bits in the source, scaled.
IntBits == 3

Pow2(n) == 2 ^ n

\* The integer part of h/2, rounded toward zero.
Trunc(h) == IF h >= 0 THEN h \div 2 ELSE -((-h) \div 2)

\* ToInt32 of an integer: modulo 2^IntBits into [-2^(IntBits-1), 2^(IntBits-1)).
Wrap(n) == ((n + Pow2(IntBits - 1)) % Pow2(IntBits)) - Pow2(IntBits - 1)

\* ~~x for a number x: NaN and the infinities give 0.
ToInt32(x) == IF x.t = "num" THEN Wrap(Trunc(x.h)) ELSE 0

\* Math.max(0, x) for a number x.
MathMax0(x) ==
    CASE x.t = "nan" -> NaN
      [] x.t = "inf" -> Infinity
      [] x.t = "ninf" -> JsInt(0)
      [] OTHER -> IF x.h < 0 THEN JsInt(0) ELSE x

\* The numbers callers pass: negative, fractional, small, at and beyond the
\* width of the integers, and the values that are no finite number.
NumberArgs ==
    {Num(h) : h \in {-3, -2, 0, 1, 3, 4, Pow2(IntBits), Pow2(IntBits) + 1}}
    \cup {NaN, Infinity}

GroupArgs == NumberArgs \cup {Bool(TRUE), Bool(FALSE), Undefined, Other}

----------------------------------------------------------------------------
(* ViewQuery: the query builder.  A caller that builds a query is at "vq"  *)
(* and its locals are the fields of the builder, with the call made last   *)
(* and the shape methods called so far.                                    *)

NoCall == [method |-> "none", arg |-> Undefined]

\* part_000 31-50: the fields of a new ViewQuery.
NewViewQuery(viewName) ==
    [handler |-> "ViewQuery", viewName |-> viewName,
     limit |-> Infinity, skip |-> 0, reduce |-> FALSE, includeDocs |-> FALSE,
     descending |-> FALSE,
     hasKey |-> FALSE, key |-> Absent,
     hasKeys |-> FALSE, keys |-> <<>>,
     hasPrefix |-> FALSE, prefix |-> <<>>,
     hasRange |-> FALSE, startKey |-> <<>>, endKey |-> <<>>,
     startKeyDocId |-> Absent, endKeyDocId |-> Absent,
     hasGroupLevel |-> FALSE, groupLevel |-> 0,
     called |-> {}, last |-> NoCall]

\* A method of the builder returns this: the caller goes on with builder b.
Chain(p, b) ==
    /\ pc' = [pc EXCEPT ![p] = "vq"]
    /\ loc' = [loc EXCEPT ![p] = b]
    /\ UNCHANGED <<kv, clock, views, out, lastWrite, issued, spent>>

Called(b, method, arg) ==
    [b EXCEPT !.last = [method |-> method, arg |-> arg],
              !.called = @ \cup ({method} \cap {"key", "keys", "prefix", "range"})]

\* part_000 52-54
ViewQueryFor(p, viewName) ==
    /\ Idle(p)
    /\ Chain(p, NewViewQuery(viewName))

\* part_000 59-62
WithKey(b, key) == [Called(b, "key", Undefined) EXCEPT !.hasKey = TRUE, !.key = key]

VQKey(p, key) == At(p, "vq") /\ Chain(p, WithKey(loc[p], key))

\* part_000 67-70
WithKeys(b, keys) ==
    [Called(b, "keys", Undefined) EXCEPT !.hasKeys = TRUE, !.keys = keys]

VQKeys(p, keys) == At(p, "vq") /\ Chain(p, WithKeys(loc[p], keys))

\* part_000 75-78
WithPrefix(b, prefix) ==
    [Called(b, "prefix", Undefined) EXCEPT !.hasPrefix = TRUE, !.prefix = prefix]

VQPrefix(p, prefix) == At(p, "vq") /\ Chain(p, WithPrefix(loc[p], prefix))

\* part_000 84-88
WithRange(b, startKey, endKey) ==
    [Called(b, "range", Undefined) EXCEPT
        !.hasRange = TRUE, !.startKey = startKey, !.endKey = endKey]

VQRange(p, startKey, endKey) ==
    At(p, "vq") /\ Chain(p, WithRange(loc[p], startKey, endKey))

\* part_000 90-94
WithIdRange(b, startId, endId) ==
    [Called(b, "none", Undefined) EXCEPT
        !.startKeyDocId = startId, !.endKeyDocId = endId]

VQIdRange(p, startId, endId) ==
    At(p, "vq") /\ Chain(p, WithIdRange(loc[p], startId, endId))

\* part_000 102-105: this.#skip = ~~Math.max(0, n)
WithSkip(b, n) == [Called(b, "skip", n) EXCEPT !.skip = ToInt32(MathMax0(n))]

VQSkip(p, n) == At(p, "vq") /\ Chain(p, WithSkip(loc[p], n))

\* part_000 111-114: this.#limit = ~~Math.max(0, n)
WithLimit(b, n) ==
    [Called(b, "limit", n) EXCEPT !.limit = JsInt(ToInt32(MathMax0(n)))]

VQLimit(p, n) == At(p, "vq") /\ Chain(p, WithLimit(loc[p], n))

\* part_000 119-122
WithIncludeDocs(b, shouldInclude) ==
    [Called(b, "none", Undefined) EXCEPT !.includeDocs = shouldInclude]

VQIncludeDocs(p, shouldInclude) ==
    At(p, "vq") /\ Chain(p, WithIncludeDocs(loc[p], shouldInclude))

\* part_000 127-130
WithOrder(b, descending) ==
    [Called(b, "none", Undefined) EXCEPT !.descending = descending]

VQOrder(p, descending) == At(p, "vq") /\ Chain(p, WithOrder(loc[p], descending))

\* part_000 135-138
WithReduce(b, shouldReduce) ==
    [Called(b, "none", Undefined) EXCEPT !.reduce = shouldReduce]

VQReduce(p, shouldReduce) == At(p, "vq") /\ Chain(p, WithReduce(loc[p], shouldReduce))

\* part_000 143: level = true when the argument is undefined.
GroupLevelArg(x) == IF x = Undefined THEN Bool(TRUE) ELSE x

\* part_000 144, 150, 155: the three tests of group.
IsTrueOrZero(level) == level = Bool(TRUE) \/ (level.t = "num" /\ level.h = 0)
IsFalse(level) == level = Bool(FALSE)
IsPositiveNumber(level) == level.t = "inf" \/ (level.t = "num" /\ level.h > 0)

\* part_000 161: group throws.
GroupThrows(x) ==
    LET level == GroupLevelArg(x)
    IN  ~IsTrueOrZero(level) /\ ~IsFalse(level) /\ ~IsPositiveNumber(level)

\* part_000 143-160: the builder group(x) returns when it does not throw.
WithGroup(b, x) ==
    LET level == GroupLevelArg(x)
        c == Called(b, "group", x)
    IN  IF IsTrueOrZero(level)
        THEN [c EXCEPT !.reduce = TRUE, !.hasGroupLevel = TRUE, !.groupLevel = 0]
        ELSE IF IsFalse(level)
        THEN [c EXCEPT !.hasGroupLevel = FALSE, !.groupLevel = 0]
        ELSE [c EXCEPT !.reduce = TRUE, !.hasGroupLevel = TRUE,
                       !.groupLevel = ToInt32(level)]

\* part_000 143-162
VQGroup(p, x) ==
    /\ At(p, "vq")
    /\ IF ~GroupThrows(x)
       THEN Chain(p, WithGroup(loc[p], x))
       ELSE /\ out' = Thrown(p, "group", Absent, NullStamp, "InvalidGroupLevel")
            /\ loc' = [loc EXCEPT ![p] = Called(loc[p], "group", x)]
            /\ UNCHANGED <<kv, clock, views, pc, lastWrite, issued, spent>>

\* Mutant: the prefix is looked at before the key and the keys.
getParamsPrefixFirst(b) ==
    LET common == [viewName |-> b.viewName, limit |-> b.limit, skip |-> b.skip,
                   includeDocs |-> b.includeDocs, descending |-> b.descending,
                   reduce |-> b.reduce]
    IN  IF b.hasPrefix THEN common @@ [type |-> "prefix", prefix |-> b.prefix]
        ELSE IF b.hasKey THEN common @@ [type |-> "key", key |-> b.key]
        ELSE IF b.hasKeys THEN common @@ [type |-> "keys", keys |-> b.keys]
        ELSE common @@ [type |-> "scan"]

\* part_000 169-237
getParams(b) ==
    LET common == [viewName |-> b.viewName, limit |-> b.limit, skip |-> b.skip,
                   includeDocs |-> b.includeDocs, descending |-> b.descending,
                   reduce |-> b.reduce]
        at(f, v) == [x \in {f} |-> v]
    IN  IF b.hasKey THEN common @@ at("type", "key") @@ at("key", b.key)
        ELSE IF b.hasKeys THEN common @@ at("type", "keys") @@ at("keys", b.keys)
        ELSE IF b.hasPrefix
        THEN common @@ at("type", "prefix") @@ at("prefix", b.prefix)
        ELSE IF b.hasRange
        THEN common @@ at("type", "range")
             @@ [startKey |-> b.startKey, endKey |-> b.endKey,
                 startKeyDocId |-> b.startKeyDocId, endKeyDocId |-> b.endKeyDocId,
                 hasGroupLevel |-> b.hasGroupLevel, groupLevel |-> b.groupLevel]
        ELSE common @@ at("type", "scan")
             @@ [hasGroupLevel |-> b.hasGroupLevel, groupLevel |-> b.groupLevel]

----------------------------------------------------------------------------
(* query: cushion.ts 323-458.  The caller passes its builder and reads the *)
(* generator to its end; the store holds fewer rows than one batch of the  *)
(* list iterator, so the rows are read in one piece.                       *)

\* JavaScript x + n for a number x and an integer n.
JsAdd(x, n) == IF x.t = "num" THEN Num(x.h + 2 * n) ELSE x

Reverse(seq) == [i \in 1..Len(seq) |-> seq[Len(seq) + 1 - i]]

Take(seq, n) == SubSeq(seq, 1, Min(n, Len(seq)))

Drop(seq, n) == SubSeq(seq, Min(n, Len(seq)) + 1, Len(seq))

\* 337-371: the selector of each query type.
Selector(params, viewPrefix) ==
    CASE params.type = "key" ->
           [kind |-> "prefix", start |-> viewPrefix \o <<params.key>>, end |-> <<>>]
      [] params.type = "prefix" ->
           [kind |-> "prefix", start |-> viewPrefix \o params.prefix, end |-> <<>>]
      [] params.type = "range" ->
           [kind |-> "range",
            start |-> viewPrefix \o params.startKey \o
                      (IF params.startKeyDocId \in {Absent, ""} THEN <<>>
                       ELSE <<params.startKeyDocId>>),
            end |-> viewPrefix \o params.endKey \o
                    (IF params.endKeyDocId \in {Absent, ""} THEN <<>>
                     ELSE <<params.endKeyDocId>>)]
      [] params.type = "scan" ->
           [kind |-> "prefix", start |-> viewPrefix, end |-> <<>>]

\* A prefix that selects the key equal to it as well.
SelectedWithPrefixKey(store, selector) ==
    IF selector.kind = "prefix"
    THEN {k \in DOMAIN store : HasPrefix(k, selector.start)}
    ELSE {k \in DOMAIN store : ~KeyLess(k, selector.start) /\ KeyLess(k, selector.end)}

\* A range that leaves out the key equal to its start.
SelectedAfterStart(store, selector) ==
    IF selector.kind = "prefix"
    THEN {k \in DOMAIN store : HasPrefix(k, selector.start) /\ k # selector.start}
    ELSE {k \in DOMAIN store : KeyLess(selector.start, k) /\ KeyLess(k, selector.end)}

\* The keys a selector selects: those under the prefix, the prefix itself
\* excluded, or those from start (included) to end (excluded).
Selected(store, selector) ==
    IF selector.kind = "prefix"
    THEN {k \in DOMAIN store : HasPrefix(k, selector.start) /\ k # selector.start}
    ELSE {k \in DOMAIN store : ~KeyLess(k, selector.start) /\ KeyLess(k, selector.end)}

\* 373-376: limit: params.skip ? params.limit + params.skip : params.limit
ListLimit(params) ==
    IF params.skip # 0 THEN JsAdd(params.limit, params.skip) ELSE params.limit

\* 378: kv.list(selector, { reverse, limit }) with a limit that is positive:
\* the selected keys in key order, or in reverse of it, cut at the limit.
ListEntries(store, selector, reverse, limit) ==
    LET asc == SortKeys(Selected(store, selector))
        ordered == IF reverse THEN Reverse(asc) ELSE asc
    IN  IF limit.t = "num" THEN Take(ordered, Trunc(limit.h)) ELSE ordered

\* kv.list is given a limit that is zero or negative.
BadLimit(limit) == limit.t = "num" /\ limit.h <= 0

\* 397-404: the row the map-only path yields for an entry.
MapRow(store, k, prefixLen, includeDocs) ==
    [key |-> SubSeq(k, prefixLen + 1, Len(k) - 1),
     id |-> k[Len(k)],
     value |-> store[k].value.value,
     hasDoc |-> includeDocs,
     doc |-> IF includeDocs THEN store[k].value.doc ELSE NullDoc]

\* A map-only path that drops no entry.
MapOnlyRowsNoSkip(store, entries, params, prefixLen) ==
    [i \in 1..Len(entries) |->
        MapRow(store, entries[i], prefixLen, params.includeDocs)]

\* 390-405: the rows of the map-only path.
MapOnlyRows(store, entries, params, prefixLen) ==
    LET rest == IF params.skip > 0 THEN Drop(entries, params.skip) ELSE entries
    IN  [i \in 1..Len(rest) |-> MapRow(store, rest[i], prefixLen, params.includeDocs)]

\* JSON.stringify of a key part: a string is quoted, NaN and Infinity are
\* written null.
JsonPart(part) ==
    IF part \in {"#NaN", "#Infinity"} THEN [json |-> "null", text |-> ""]
    ELSE [json |-> "string", text |-> part]

JsonStringify(parts) == [i \in 1..Len(parts) |-> JsonPart(parts[i])]

\* JSON.parse of such a text: null for what was written null.
JsonParse(text) ==
    [i \in 1..Len(text) |->
        IF text[i].json = "null" THEN "<null>" ELSE text[i].text]

\* emittedKey.slice(0, n) for n # 0: the first n parts, or all but the last
\* -n when n is negative.
Slice0(key, n) ==
    IF n >= 0 THEN Take(key, n)
    ELSE SubSeq(key, 1, IF Len(key) + n > 0 THEN Len(key) + n ELSE 0)

\* 415, 424-428: the key of the group an entry belongs to.
GroupKey(emittedKey, params) ==
    IF params.type \in {"scan", "range"} /\ params.hasGroupLevel
    THEN [all |-> FALSE,
          json |-> JsonStringify(IF params.groupLevel = 0 THEN emittedKey
                                 ELSE Slice0(emittedKey, params.groupLevel))]
    ELSE [all |-> TRUE, json |-> <<>>]

\* 420-434: the groups in the order in which their first entry was read;
\* each holds its key and the entries put in it.
RECURSIVE Groups(_, _, _, _)
Groups(entries, params, prefixLen, groups) ==
    IF entries = <<>> THEN groups
    ELSE LET k == Head(entries)
             gk == GroupKey(SubSeq(k, prefixLen + 1, Len(k) - 1), params)
             at == {i \in 1..Len(groups) : groups[i].groupKey = gk}
             next == IF at = {}
                     THEN Append(groups, [groupKey |-> gk, entries |-> <<k>>])
                     ELSE LET i == CHOOSE j \in at : TRUE
                          IN  [groups EXCEPT ![i].entries = Append(@, k)]
         IN  Groups(Tail(entries), params, prefixLen, next)

\* 431-432, 449: the arguments reduceFn is called with for a group.
ReduceKeys(es, prefixLen) ==
    [i \in 1..Len(es) |-> <<SubSeq(es[i], prefixLen + 1, Len(es[i]) - 1),
                            es[i][Len(es[i])]>>]

ReduceValues(store, es) == [i \in 1..Len(es) |-> store[es[i]].value]

\* The reduce functions of the model: the number of keys, and the keys.
ReduceFn(reducer, keys, values) ==
    CASE reducer = "count" -> <<Len(keys)>>
      [] reducer = "keys" -> keys

\* 436-457: skip and limit over the groups, one row per group that is left.
ReduceRows(store, groups, reducer, params, prefixLen) ==
    LET rest == IF params.skip > 0 THEN Drop(groups, params.skip) ELSE groups
        kept == IF params.limit.t = "num"
                THEN Take(rest, IF params.limit.h > 0 THEN Trunc(params.limit.h) ELSE 0)
                ELSE rest
    IN  [i \in 1..Len(kept) |->
            [key |-> IF kept[i].groupKey.all THEN <<"<null>">>
                     ELSE JsonParse(kept[i].groupKey.json),
             all |-> kept[i].groupKey.all,
             value |-> ReduceFn(reducer, ReduceKeys(kept[i].entries, prefixLen),
                                ReduceValues(store, kept[i].entries))]]

\* What a query did: the parameters it ran with, the rows it yielded, the
\* entries it read from the store and whether it took the reduce path.
QueryInfo(params, rows, entries, reduced) ==
    [params |-> params, rows |-> rows, entries |-> entries, reduced |-> reduced]

QueryOutcome(p, params, ok, error, rows, entries, reduced) ==
    Outcome(p, "query", params.viewName, NullStamp, ok, error, NullStamp, NullDoc,
            QueryInfo(params, rows, entries, reduced))

\* 327: this.#views.get(viewName)
ViewDefs(registry, viewName) ==
    {registry[i] : i \in {j \in 1..Len(registry) : registry[j].name = viewName}}

\* A query that looks at the shape before it looks for the view.
QueryOutcomesShapeFirst(p, b) ==
    LET params == getParams(b)
        defs == ViewDefs(views, params.viewName)
        viewPrefix == getViewKey(Namespace, params.viewName)
    IN  IF params.type = "keys"
        THEN {QueryOutcome(p, params, FALSE, "NotImplemented", <<>>, <<>>, FALSE)}
        ELSE IF defs = {}
        THEN {QueryOutcome(p, params, FALSE, "UndefinedView", <<>>, <<>>, FALSE)}
        ELSE LET entries == ListEntries(kv, Selector(params, viewPrefix),
                                        params.descending, ListLimit(params))
             IN  {QueryOutcome(p, params, TRUE, "",
                               MapOnlyRows(kv, entries, params, Len(viewPrefix)),
                               entries, FALSE)}

\* 323-406: the outcomes of query(viewQuery) read to its end.  kv.list is not
\* given a meaning by the source for a limit that is not positive: it throws
\* or yields nothing.
QueryOutcomes(p, b) ==
    LET params == getParams(b)
        defs == ViewDefs(views, params.viewName)
        viewPrefix == getViewKey(Namespace, params.viewName)
    IN  IF defs = {}
        THEN {QueryOutcome(p, params, FALSE, "UndefinedView", <<>>, <<>>, FALSE)}
        ELSE IF params.type = "keys"
        THEN {QueryOutcome(p, params, FALSE, "NotImplemented", <<>>, <<>>, FALSE)}
        ELSE IF BadLimit(ListLimit(params))
        THEN {QueryOutcome(p, params, FALSE, "InvalidLimit", <<>>, <<>>, FALSE),
              QueryOutcome(p, params, TRUE, "", <<>>, <<>>, FALSE)}
        ELSE LET viewDef == CHOOSE d \in defs : TRUE
                 entries == ListEntries(kv, Selector(params, viewPrefix),
                                        params.descending, ListLimit(params))
                 reduced == params.reduce /\ viewDef.reduce # Absent
             IN  {QueryOutcome(p, params, TRUE, "",
                     IF reduced
                     THEN ReduceRows(kv, Groups(entries, params, Len(viewPrefix), <<>>),
                                     viewDef.reduce, params, Len(viewPrefix))
                     ELSE MapOnlyRows(kv, entries, params, Len(viewPrefix)),
                     entries, reduced)}

Query(p, b) ==
    /\ Idle(p)
    /\ \E o \in QueryOutcomes(p, b) : out' = o
    /\ UNCHANGED <<kv, clock, views, pc, loc, lastWrite, issued, spent>>

\* The steps of a caller that builds a query, the arguments drawn from in:
\* the methods that set the shape, ...
ShapeStep(p, in) ==
    \/ \E v \in in.viewNames : ViewQueryFor(p, v)
    \/ \E k \in in.keys : VQKey(p, k)
    \/ \E ks \in in.keyLists : VQKeys(p, ks)
    \/ \E pre \in in.prefixes : VQPrefix(p, pre)
    \/ \E r \in in.ranges : VQRange(p, r[1], r[2])

\* ... the window and the grouping, ...
WindowStep(p, in) ==
    \/ \E n \in in.skips : VQSkip(p, n)
    \/ \E n \in in.limits : VQLimit(p, n)
    \/ \E b \in in.reduces : VQReduce(p, b)
    \/ \E x \in in.groups : VQGroup(p, x)

\* ... the doc id bounds, the direction and the documents.
OptionStep(p, in) ==
    \/ \E r \in in.idRanges : VQIdRange(p, r[1], r[2])
    \/ \E b \in in.includes : VQIncludeDocs(p, b)
    \/ \E b \in in.orders : VQOrder(p, b)

\* A caller that calls the methods of one builder in any order, any number
\* of times, with every kind of number.
BuilderInputs ==
    [viewNames |-> ViewNames,
     keys |-> {"Alice"},
     keyLists |-> {<<"Alice", "Bob">>},
     prefixes |-> {<<"Alice">>},
     ranges |-> {<< <<"Alice">>, <<"Bob">> >>},
     skips |-> NumberArgs,
     limits |-> NumberArgs,
     reduces |-> BOOLEAN,
     groups |-> GroupArgs]

NextBuilder ==
    \/ TakeResult
    \/ ShapeStep("p1", BuilderInputs)
    \/ WindowStep("p1", BuilderInputs)

SpecBuilder == Init /\ [][NextBuilder]_vars

\* The builders of the queries a caller runs: every shape, ...
Q0 == NewViewQuery("v")

PagedRange == WithRange(Q0, <<"Alice">>, <<"Alice", "user">>)

\* A range that starts below the least key of the view.
LooseRange == WithRange(Q0, <<"">>, <<"Alice", "user">>)

QueryShapes ==
    {Q0,
     WithKey(Q0, "Alice"),
     WithKeys(Q0, <<"Alice">>),
     WithPrefix(Q0, <<"Alice">>),
     WithPrefix(Q0, <<"Alice", "b">>),
     WithRange(Q0, <<"Alice">>, <<"#Infinity">>),
     WithRange(Q0, <<"Alice", "b">>, <<"#Infinity">>),
     PagedRange,
     WithIdRange(PagedRange, "a", ""),
     WithIdRange(PagedRange, "b", ""),
     LooseRange,
     WithIdRange(LooseRange, "a", ""),
     WithIdRange(LooseRange, "b", "")}

\* ... with and without skip and limit, in both directions, ...
MaxLimit == 2

Windows(b) ==
    {c \in UNION {{s, WithLimit(s, JsInt(m))} : m \in 0..MaxLimit,
                  s \in {b, WithSkip(b, JsInt(1))}} : TRUE}

MapQueries ==
    UNION {{w, WithOrder(w, TRUE)} : w \in UNION {Windows(b) : b \in QueryShapes}}
    \cup {WithIncludeDocs(Q0, TRUE)}

\* ... and reduced, ungrouped and grouped.
ReduceQueries ==
    UNION {{WithReduce(b, TRUE), WithGroup(b, Bool(TRUE)), WithGroup(b, JsInt(1))}
           : b \in {Q0, WithKey(Q0, "Alice"), WithPrefix(Q0, <<"Alice">>),
                    WithRange(Q0, <<"Alice">>, <<"#Infinity">>)}}
    \cup UNION {{WithLimit(b, JsInt(1)), WithSkip(b, JsInt(1)),
                 WithLimit(WithSkip(b, JsInt(1)), JsInt(1))}
                : b \in {WithReduce(Q0, TRUE), WithGroup(Q0, Bool(TRUE))}}
    \cup {WithLimit(WithGroup(WithKey(Q0, "Alice"), JsInt(1)), JsInt(1)),
          WithSkip(WithGroup(WithPrefix(Q0, <<"Alice">>), Bool(TRUE)), JsInt(1))}

\* The documents of the queried store: two that share a name, one of a type
\* that is the id of another, and two whose name is no finite number.
QueryBodies ==
    { [type |-> "user", name |-> "Alice"],
      [type |-> "b", name |-> "Alice"],
      [type |-> "user", name |-> "#NaN"],
      [type |-> "user", name |-> "#Infinity"] }

QueryInputs ==
    [payloads |-> [_id : DocIds, _rev : {NullStamp}, body : QueryBodies],
     logics |-> {[map |-> "byNameAndType", reduce |-> "keys"],
                 [map |-> "byName", reduce |-> Absent],
                 [map |-> "byNameTwice", reduce |-> "keys"]},
     queries |-> MapQueries \cup ReduceQueries]

\* One caller that defines a view, inserts documents and runs queries.
QueryStep(p, in) ==
    \/ \E doc \in in.payloads : Insert(p, doc)
    \/ UpdateViewsNext(p)
    \/ UpdateViewsCommit(p)
    \/ \E v \in ViewNames, f \in in.logics : DefineView(p, v, f.map, f.reduce)
    \/ DefineViewDesign(p)
    \/ DefineViewCheck(p)
    \/ RebuildDelete(p)
    \/ RebuildDocs(p)
    \/ RebuildMap(p)
    \/ RebuildReady(p)
    \/ RebuildDone(p)
    \/ \E b \in in.queries : Query(p, b)

NextQuery == TakeResult \/ QueryStep("p1", QueryInputs)

SpecQuery == Init /\ [][NextQuery]_vars

----------------------------------------------------------------------------
(* A database opened on a store that another database, of another          *)
(* namespace, has written to: Cushion.open(namespace, kv), cushion.ts      *)
(* 42-54.  The other database holds a document and a view of the ids and   *)
(* names this one uses.                                                    *)

OtherNamespace == "other"

OtherDoc == [_id |-> "a", _rev |-> NullStamp, body |-> [type |-> "user", name |-> "Bob"]]

OtherRowKey == getViewKey(OtherNamespace, "v") \o <<"Bob", "a">>

OtherStore ==
    LET entry(value) == [value |-> value, versionstamp |-> NullStamp]
    IN  (getDocumentKey(OtherNamespace, "a") :> entry(OtherDoc))
        @@ (OtherRowKey :> entry(RowPayload(Absent, OtherDoc)))
        @@ (getViewRefKey(OtherNamespace, "v", "a") :> entry(<<OtherRowKey>>))
        @@ (getDesignKey(OtherNamespace, "v") :>
               entry([signature |-> hashFunction("byName"), state |-> "ready"]))

InitShared ==
    /\ kv = OtherStore
    /\ clock = NullStamp
    /\ views = <<>>
    /\ pc = [p \in Procs |-> "idle"]
    /\ loc = [p \in Procs |-> NoLocals]
    /\ out = NoOutcome
    /\ lastWrite = [d \in AllIds |-> NoWrite]
    /\ issued = [d \in AllIds |-> {}]
    /\ spent = {}

\* The calls of one caller of this database, queries among them.
SharedInputs ==
    [ids |-> {"a"},
     payloads |-> PayloadsOf({"a", Absent}, Bodies),
     logics |-> {[map |-> "byName", reduce |-> Absent],
                 [map |-> "byTypeName", reduce |-> "count"]},
     queries |-> {Q0, WithKey(Q0, "Bob"), WithPrefix(Q0, <<"user">>),
                  WithRange(Q0, <<"">>, <<"#NaN">>), WithReduce(Q0, TRUE),
                  WithOrder(WithIncludeDocs(Q0, TRUE), TRUE)}]

SharedStep(p, in) == \E b \in in.queries : Query(p, b)

NextShared ==
    \/ TakeResult
    \/ Step("p1", SharedInputs)
    \/ SharedStep("p1", SharedInputs)

SpecShared == InitShared /\ [][NextShared]_vars

----------------------------------------------------------------------------
(* A database whose views were defined, and built over the empty store,    *)
(* before its callers mutate documents: two views, "v" and "w", with their *)
(* design records ready.                                                   *)

DefinedViews ==
    << [name |-> "v", map |-> "byName", reduce |-> Absent],
       [name |-> "w", map |-> "byTypeName", reduce |-> "count"] >>

DefinedStore ==
    LET entry(value) == [value |-> value, versionstamp |-> NullStamp]
    IN  (getDesignKey(Namespace, "v") :>
            entry([signature |-> hashFunction("byName"), state |-> "ready"]))
        @@ (getDesignKey(Namespace, "w") :>
               entry([signature |-> hashFunction("byTypeName"), state |-> "ready"]))

InitDefined ==
    /\ kv = DefinedStore
    /\ clock = NullStamp
    /\ views = DefinedViews
    /\ pc = [p \in Procs |-> "idle"]
    /\ loc = [p \in Procs |-> NoLocals]
    /\ out = NoOutcome
    /\ lastWrite = [d \in AllIds |-> NoWrite]
    /\ issued = [d \in AllIds |-> {}]
    /\ spent = {}

\* The steps of a caller that reads and mutates documents.
MutationStep(p, in) ==
    \/ \E id \in in.ids : Get(p, id)
    \/ \E doc \in in.payloads : Insert(p, doc)
    \/ \E id \in in.ids, rev \in 1..clock, doc \in in.payloads :
          Replace(p, id, rev, doc)
    \/ \E id \in in.ids, rev \in 1..clock : Remove(p, id, rev)
    \/ UpdateViewsNext(p)
    \/ UpdateViewsCommit(p)

MutationInputs ==
    [ids |-> {"a"},
     payloads |-> [_id : {"a"}, _rev : {NullStamp},
                   body : {[type |-> "user", name |-> "Alice"],
                           [type |-> "post", name |-> "Alice"]}]]

\* Two callers whose mutations of one document interleave at every await.
NextRace == TakeResult \/ \E p \in Procs : MutationStep(p, MutationInputs)

SpecRace == InitDefined /\ [][NextRace]_vars

\* One caller that awaits each mutation before it makes the next one.
NextAlone == TakeResult \/ MutationStep("p1", MutationInputs)

SpecAlone == InitDefined /\ [][NextAlone]_vars

----------------------------------------------------------------------------
(* A database that holds two documents, inserted before any view was       *)
(* defined, and two callers that define one view with different map        *)
(* functions, their calls interleaving at every await.                     *)

StoredDocs ==
    ("a" :> [op |-> "insert", rev |-> 1, body |-> [type |-> "user", name |-> "Alice"]])
    @@ ("b" :> [op |-> "insert", rev |-> 2, body |-> [type |-> "post", name |-> "Alice"]])

InitStored ==
    /\ kv = [k \in {getDocumentKey(Namespace, id) : id \in DOMAIN StoredDocs} |->
               LET w == StoredDocs[k[Len(k)]]
               IN  [value |-> [_id |-> k[Len(k)], _rev |-> NullStamp, body |-> w.body],
                    versionstamp |-> w.rev]]
    /\ clock = Cardinality(DOMAIN StoredDocs)
    /\ views = <<>>
    /\ pc = [p \in Procs |-> "idle"]
    /\ loc = [p \in Procs |-> NoLocals]
    /\ out = NoOutcome
    /\ lastWrite = [d \in AllIds |->
                       IF d \in DOMAIN StoredDocs THEN StoredDocs[d] ELSE NoWrite]
    /\ issued = [d \in AllIds |->
                    IF d \in DOMAIN StoredDocs THEN {StoredDocs[d].rev} ELSE {}]
    /\ spent = {}

DefineStep(p, in) ==
    \/ \E v \in in.viewNames, f \in in.logics : DefineView(p, v, f.map, f.reduce)
    \/ DefineViewDesign(p)
    \/ DefineViewCheck(p)
    \/ RebuildDelete(p)
    \/ RebuildDocs(p)
    \/ RebuildMap(p)
    \/ RebuildReady(p)
    \/ RebuildDone(p)

DefineInputs ==
    [viewNames |-> ViewNames,
     logics |-> {[map |-> "byName", reduce |-> Absent],
                 [map |-> "byTypeName", reduce |-> "count"]}]

NextDefine == TakeResult \/ \E p \in Procs : DefineStep(p, DefineInputs)

SpecDefine == InitStored /\ [][NextDefine]_vars

----------------------------------------------------------------------------
(* A database with its views defined, one caller that mutates a document   *)
(* and one that defines the second view again meanwhile, with the same or  *)
(* with another map function.                                              *)

RedefineInputs ==
    [viewNames |-> {"w"},
     logics |-> {[map |-> "byTypeName", reduce |-> "count"],
                 [map |-> "byName", reduce |-> Absent]}]

PostInputs ==
    [ids |-> {"a"},
     payloads |-> [_id : {"a"}, _rev : {NullStamp},
                   body : {[type |-> "post", name |-> "Alice"]}]]

NextRegistry ==
    \/ TakeResult
    \/ MutationStep("p1", PostInputs)
    \/ DefineStep("p2", RedefineInputs)

SpecRegistry == InitDefined /\ [][NextRegistry]_vars

----------------------------------------------------------------------------
(* The database that holds two documents, one caller that defines a view   *)
(* and one that mutates a stored document meanwhile: the mutations follow  *)
(* one another, and interleave with defineView and its rebuild at every    *)
(* await.                                                                  *)

NextRebuild ==
    \/ TakeResult
    \/ DefineStep("p1", DefineInputs)
    \/ MutationStep("p2", PostInputs)

SpecRebuild == InitStored /\ [][NextRebuild]_vars

----------------------------------------------------------------------------
(* A database with one view defined before any document is stored; its one *)
(* caller mutates a document, which maintains that view, and defines a     *)
(* second view with the same map function, which is built by a rebuild.    *)

InitMaintained ==
    /\ kv = [k \in {getDesignKey(Namespace, "v")} |-> DefinedStore[k]]
    /\ views = <<DefinedViews[1]>>
    /\ clock = NullStamp
    /\ pc = [p \in Procs |-> "idle"]
    /\ loc = [p \in Procs |-> NoLocals]
    /\ out = NoOutcome
    /\ lastWrite = [d \in AllIds |-> NoWrite]
    /\ issued = [d \in AllIds |-> {}]
    /\ spent = {}

\* The second view is defined with the first view's map function, or first
\* with another one and then again with the first view's.
SecondViewInputs ==
    [viewNames |-> {"w"},
     logics |-> {[map |-> DefinedViews[1].map, reduce |-> Absent],
                 [map |-> "byTypeName", reduce |-> "count"]}]

NextPaths ==
    \/ TakeResult
    \/ MutationStep("p1", MutationInputs)
    \/ DefineStep("p1", SecondViewInputs)

SpecPaths == InitMaintained /\ [][NextPaths]_vars

----------------------------------------------------------------------------
(* What the claims speak of *)

DocKey(id) == getDocumentKey(Namespace, id)

AllIdle == \A p \in Procs : pc[p] = "idle"

\* The keys stored under a view's row prefix.
RowKeys(store, viewName) ==
    {k \in DOMAIN store : HasPrefix(k, getViewKey(Namespace, viewName))}

\* A stored row as (emit key, doc id): the parts after the view prefix, the
\* last one being the doc id.
RowPair(k) == <<SubSeq(k, 4, Len(k) - 1), k[Len(k)]>>

RowPairs(store, viewName) == {RowPair(k) : k \in RowKeys(store, viewName)}

\* The (emit key, doc id) pairs of a map function over every stored document.
MapPairs(mapper, store) ==
    UNION { LET doc == GetValue(store, id)
                es == Emissions(mapper, doc)
            IN  {<<keyParts(es[i].key), id>> : i \in 1..Len(es)}
            : id \in {d \in AllIds : Present(store, DocKey(d))} }

\* The back-references of a view name exactly the rows of each stored
\* document, and there is none for a document that is not stored.
BackRefsExact(store, viewName) ==
    \A id \in AllIds :
        LET refKey == getViewRefKey(Namespace, viewName, id)
            rows == {k \in RowKeys(store, viewName) : k[Len(k)] = id}
        IN  IF Present(store, DocKey(id))
            THEN /\ Present(store, refKey)
                 /\ {store[refKey].value[i] : i \in 1..Len(store[refKey].value)} = rows
            ELSE ~Present(store, refKey) /\ rows = {}

\* The map function registered under a view name.
Registered(viewName) ==
    LET i == CHOOSE j \in 1..Len(views) : views[j].name = viewName
    IN  views[i].map

\* What get returns for a document whose last write is w.
Written(w, id) ==
    IF w.op \in {"insert", "replace"}
    THEN [_id |-> id, _rev |-> w.rev, body |-> w.body]
    ELSE NullDoc

\* The step in which caller p's call of one of ops commits.
Commits(p, ops) ==
    /\ pc[p] = "idle"
    /\ pc'[p] = "uv_next"
    /\ loc'[p].handler \in ops

\* The step in which a call of one of ops throws.
Throws(ops) == out = NoOutcome /\ out'.op \in ops /\ ~out'.ok

\* The step in which a call of op returns.
Returns(op) == out = NoOutcome /\ out'.op = op /\ out'.ok

----------------------------------------------------------------------------
(* C1: with calls awaited one after the other, whenever no call is running *)
(* the rows under every registered view's prefix are exactly the (emit     *)
(* key, doc id) pairs of the view's map function over the stored documents.*)

C1_RowsAreMapOfLiveDocs ==
    AllIdle =>
        \A i \in 1..Len(views) :
            RowPairs(kv, views[i].name) = MapPairs(views[i].map, kv)

\* A replace has returned and the view holds a row written for the new value.
C1_Witness ==
    /\ AllIdle
    /\ out.op = "replace" /\ out.ok
    /\ \E i \in 1..Len(views) :
         \E k \in RowKeys(kv, views[i].name) :
            /\ kv[k].value.doc._rev = out.newRev
            /\ k[Len(k)] = out.id

----------------------------------------------------------------------------
(* C2: a replace or remove commits only with the rev that is the current   *)
(* versionstamp of the stored document, the rev the last insert or replace *)
(* of that id returned; with any other rev it throws RevisionConflict.     *)

C2_RevMustBeCurrent ==
    [][ /\ \A p \in Procs :
              Commits(p, {"replace", "remove"}) =>
                  LET id == loc'[p].docId
                      rev == loc'[p].rev
                  IN  /\ Present(kv, DocKey(id))
                      /\ Stamp(kv, DocKey(id)) = rev
                      /\ lastWrite[id].op \in {"insert", "replace"}
                      /\ lastWrite[id].rev = rev
        /\ Throws({"replace", "remove"}) =>
              /\ out'.error = "RevisionConflict"
              /\ Stamp(kv, DocKey(out'.id)) # out'.rev
      ]_vars

\* A call failed with a rev of an earlier incarnation: the rev was returned
\* for this id, the document was removed and inserted again since.
C2_Witness ==
    /\ out.op \in {"replace", "remove"}
    /\ out.error = "RevisionConflict"
    /\ out.rev \in issued[out.id]
    /\ lastWrite[out.id].op = "insert"
    /\ lastWrite[out.id].rev > out.rev

----------------------------------------------------------------------------
(* C3: an insert of a document without _rev commits only when no document  *)
(* is stored under its id, and throws DuplicateDocument only when one is;  *)
(* between two inserts of an id that succeed there is a remove, so of      *)
(* inserts that interleave one succeeds.  An insert of a document with     *)
(* _rev throws before it reaches the store.                                *)

C3_InsertOnlyWhenAbsent ==
    [][ /\ \A p \in Procs :
              Commits(p, {"insert"}) =>
                  /\ ~Present(kv, DocKey(loc'[p].docId))
                  /\ lastWrite[loc'[p].docId].op \in {"none", "remove"}
        /\ (Throws({"insert"}) /\ out'.error # "UnexpectedRev") =>
              /\ out'.error = "DuplicateDocument"
              /\ Present(kv, DocKey(out'.id))
              /\ lastWrite[out'.id].op \in {"insert", "replace"}
      ]_vars

\* C3 as stated: every insert that does not succeed throws DuplicateDocument
\* on a stored id.
C3_AsStated ==
    [][ Throws({"insert"}) =>
            /\ out'.error = "DuplicateDocument"
            /\ Present(kv, DocKey(out'.id))
      ]_vars

\* While one caller's insert is still updating the views, the other caller's
\* insert of the same id has thrown DuplicateDocument.
C3_Witness ==
    \E p \in Procs :
        /\ pc[p] # "idle"
        /\ loc[p].handler = "insert"
        /\ out.op = "insert"
        /\ out.error = "DuplicateDocument"
        /\ out.id = loc[p].docId
        /\ out.proc # p

----------------------------------------------------------------------------
(* C4: an insert, replace or remove that throws leaves the store (document *)
(* values and versionstamps, view rows, back-references, design records)   *)
(* as it was.                                                              *)

C4_FailedMutationLeavesNoTrace ==
    [][ Throws({"insert", "replace", "remove"}) =>
            /\ kv' = kv
            /\ clock' = clock
            /\ views' = views
      ]_vars

\* A remove has thrown on a stored document that has a view row.
C4_Witness ==
    /\ out.op = "remove"
    /\ out.error = "RevisionConflict"
    /\ Present(kv, DocKey(out.id))
    /\ \E v \in ViewNames : RowKeys(kv, v) # {}

----------------------------------------------------------------------------
(* C5: when the last commit on an id is an insert of d, get returns d's    *)
(* fields with _id the id and _rev the rev the insert returned, which is   *)
(* the versionstamp of the document key.                                   *)

C5_InsertGetRoundTrip ==
    /\ (out.op = "get" /\ lastWrite[out.id].op = "insert") =>
          out.doc = [_id |-> out.id, _rev |-> lastWrite[out.id].rev,
                     body |-> lastWrite[out.id].body]
    /\ (out.op = "insert" /\ out.ok) =>
          /\ out.newRev # NullStamp
          /\ lastWrite[out.id].op = "insert"
          /\ lastWrite[out.id].rev = out.newRev
          /\ Stamp(kv, DocKey(out.id)) = out.newRev

\* A get has returned a document that was inserted without an _id.
C5_Witness ==
    /\ out.op = "get"
    /\ out.id \in UUIDs
    /\ lastWrite[out.id].op = "insert"
    /\ out.doc # NullDoc

----------------------------------------------------------------------------
(* C6: a replace that commits returns a rev that differs from the rev it   *)
(* was given and from every rev issued for the id before; when the last    *)
(* commit on an id is a replace with d', get returns d' with _id the id    *)
(* and _rev that rev.                                                      *)

C6_ReplaceThenGet ==
    [][ /\ \A p \in Procs :
              Commits(p, {"replace"}) =>
                  /\ loc'[p].newRev # loc'[p].rev
                  /\ loc'[p].newRev \notin issued[loc'[p].docId]
                  /\ loc'[p].newRev = lastWrite'[loc'[p].docId].rev
        /\ Returns("replace") => out'.newRev # out'.rev
        /\ (Returns("get") /\ lastWrite[out'.id].op = "replace") =>
              out'.doc = [_id |-> out'.id, _rev |-> lastWrite[out'.id].rev,
                          body |-> lastWrite[out'.id].body]
      ]_vars

\* A get has returned a document after a replace.
C6_Witness ==
    /\ out.op = "get"
    /\ lastWrite[out.id].op = "replace"
    /\ out.doc._id = out.id
    /\ out.doc._rev = lastWrite[out.id].rev

----------------------------------------------------------------------------
(* C7: a remove that returns has deleted the document; while the last      *)
(* commit on an id is a remove, get returns null and an insert of the id   *)
(* does not throw DuplicateDocument; a remove throws only when its rev is  *)
(* not the current one.                                                    *)

----------------------------------------------------------------------------
(* C8: no rev lets two calls through: a replace or remove commits only     *)
(* with a rev no replace or remove has committed with before, the call     *)
(* that comes second throws RevisionConflict, and the stored document is   *)
(* the one the last successful call wrote.                                 *)

C8_LostUpdateProtection ==
    [][ /\ \A p \in Procs :
              Commits(p, {"replace", "remove"}) =>
                  /\ loc'[p].rev \notin spent
                  /\ GetValue(kv', loc'[p].docId) =
                        Written(lastWrite'[loc'[p].docId], loc'[p].docId)
        /\ (Throws({"replace", "remove"}) /\ out'.rev \in spent) =>
              /\ out'.error = "RevisionConflict"
              /\ GetValue(kv', out'.id) = Written(lastWrite[out'.id], out'.id)
      ]_vars

\* While one caller's replace is still updating the views, the other caller's
\* replace or remove with the same rev has thrown.
C8_Witness ==
    \E p \in Procs :
        /\ pc[p] # "idle"
        /\ loc[p].handler = "replace"
        /\ out.op \in {"replace", "remove"}
        /\ out.error = "RevisionConflict"
        /\ out.id = loc[p].docId
        /\ out.rev = loc[p].rev
        /\ out.proc # p

----------------------------------------------------------------------------
(* C9: a defineView called on a design record that carries the signature   *)
(* of its map function returns without running the map function and        *)
(* without writing to the store.                                           *)

C9_DefineViewIdempotent ==
    (/\ out.op = "defineView"
     /\ out.info.before.signature = hashFunction(Registered(out.id))) =>
        /\ out.info.mapCalls = 0
        /\ ~out.info.wrote
        /\ DesignValue(kv, out.id) = out.info.before

\* Such a call has returned with a document stored that a rebuild would map.
C9_Witness ==
    /\ out.op = "defineView"
    /\ out.info.before.signature = hashFunction(Registered(out.id))
    /\ \E id \in AllIds : Present(kv, DocKey(id))

----------------------------------------------------------------------------
(* C10: with calls awaited one after the other, when a defineView called   *)
(* on a design record of another signature returns, the rows and the       *)
(* back-references of the view are those of the new map function over      *)
(* every stored document, and the design record carries its signature and  *)
(* the state ready.                                                        *)

C10_RebuildOnChange ==
    (/\ out.op = "defineView"
     /\ out.info.before # NoDesign
     /\ out.info.before.signature # hashFunction(Registered(out.id))) =>
        /\ RowPairs(kv, out.id) = MapPairs(Registered(out.id), kv)
        /\ BackRefsExact(kv, out.id)
        /\ DesignValue(kv, out.id) =
              [signature |-> hashFunction(Registered(out.id)), state |-> "ready"]

\* Such a call has returned with rows of the new function in the view.
C10_Witness ==
    /\ out.op = "defineView"
    /\ out.info.before # NoDesign
    /\ out.info.before.signature # hashFunction(Registered(out.id))
    /\ RowKeys(kv, out.id) # {}
    /\ out.info.mapCalls > 0

----------------------------------------------------------------------------
(* C11: the type getParams reports is "key" if key was called on the       *)
(* builder, else "keys" if keys was, else "prefix" if prefix was, else     *)
(* "range" if range was, else "scan", in whatever order and however often  *)
(* the four methods were called.                                           *)

ShapeOf(called) ==
    IF "key" \in called THEN "key"
    ELSE IF "keys" \in called THEN "keys"
    ELSE IF "prefix" \in called THEN "prefix"
    ELSE IF "range" \in called THEN "range"
    ELSE "scan"

C11_ShapePrecedence ==
    \A p \in Procs :
        pc[p] = "vq" => getParams(loc[p]).type = ShapeOf(loc[p].called)

\* All four methods have been called, range last, and the type is "key".
C11_Witness ==
    /\ pc["p1"] = "vq"
    /\ loc["p1"].called = {"key", "keys", "prefix", "range"}
    /\ loc["p1"].last.method = "range"
    /\ getParams(loc["p1"]).type = "key"

----------------------------------------------------------------------------
(* C12 as stated: group(true) and group(0) set reduce and groupLevel 0; a  *)
(* positive number x sets reduce and groupLevel floor(x); group(false)     *)
(* clears groupLevel and leaves reduce as it was; any other argument       *)
(* throws InvalidGroupLevel and leaves reduce and groupLevel as they were. *)

\* The step in which caller p calls group.
GroupStep(p) ==
    /\ pc[p] = "vq"
    /\ out = NoOutcome
    /\ loc'[p].last.method = "group"
    /\ (loc'[p] # loc[p] \/ out' # out)

SameGrouping(b1, b2) ==
    /\ b1.reduce = b2.reduce
    /\ b1.hasGroupLevel = b2.hasGroupLevel
    /\ b1.groupLevel = b2.groupLevel

C12_AsStated ==
    [][ \A p \in Procs :
          GroupStep(p) =>
            LET x == loc'[p].last.arg
                b == loc'[p]
            IN  IF x \in {Undefined, Infinity} THEN TRUE
                ELSE IF x = Bool(TRUE) \/ x = Num(0)
                THEN out' = out /\ b.reduce /\ b.hasGroupLevel /\ b.groupLevel = 0
                ELSE IF x.t = "num" /\ x.h > 0
                THEN /\ out' = out
                     /\ b.reduce /\ b.hasGroupLevel /\ b.groupLevel = x.h \div 2
                ELSE IF x = Bool(FALSE)
                THEN out' = out /\ ~b.hasGroupLevel /\ b.reduce = loc[p].reduce
                ELSE /\ out'.error = "InvalidGroupLevel"
                     /\ SameGrouping(b, loc[p])
      ]_vars

----------------------------------------------------------------------------
(* C13 as stated: after skip(n) or limit(n) with a finite number n, the    *)
(* value getParams reports is n truncated toward zero, or 0 when n is      *)
(* negative, and is never negative.                                        *)

Clamped(x) == IF x.h < 0 THEN 0 ELSE Trunc(x.h)

C13_AsStated ==
    \A p \in Procs :
        (pc[p] = "vq" /\ loc[p].last.arg.t = "num") =>
            /\ loc[p].last.method = "skip" =>
                  getParams(loc[p]).skip = Clamped(loc[p].last.arg)
            /\ loc[p].last.method = "limit" =>
                  getParams(loc[p]).limit = JsInt(Clamped(loc[p].last.arg))

----------------------------------------------------------------------------
(* What the claims about queries speak of *)

\* A query has come to its end, with rows or with an error.
QueryDone == out.op = "query"

\* The view the query named is in the registry.
ViewKnown == \E i \in 1..Len(views) : views[i].name = out.id

\* The query took, or would have taken, the map-only path.
MapOnly(params) ==
    \/ ~params.reduce
    \/ \E d \in ViewDefs(views, params.viewName) : d.reduce = Absent

\* The stored rows of a view as the map-only path yields them.
RowOf(k, params) == MapRow(kv, k, Len(getViewKey(Namespace, params.viewName)),
                           params.includeDocs)

RowsOf(ks, params) == [i \in 1..Len(ks) |-> RowOf(ks[i], params)]

\* The rows a query selects, in the order of their KV keys, or in the
\* reverse of it when descending is set.
OrderedSelection(params) ==
    LET asc == SortKeys(Selected(kv, Selector(params,
                                 getViewKey(Namespace, params.viewName))))
    IN  RowsOf(IF params.descending THEN Reverse(asc) ELSE asc, params)

\* Elements [n, n + m) of a sequence, m a number or Infinity.
Window(seq, n, m) ==
    LET last == IF m.t = "num" THEN Min(n + Trunc(m.h), Len(seq)) ELSE Len(seq)
    IN  SubSeq(seq, n + 1, last)

----------------------------------------------------------------------------
(* C14 as stated: a map-only query of a supported shape with skip n and    *)
(* limit m, m = 0 included, yields elements [n, n + m) of the rows of its  *)
(* selection in KV key order, reversed when descending is set.             *)

C14_AsStated ==
    (/\ QueryDone
     /\ ViewKnown
     /\ out.info.params.type # "keys"
     /\ MapOnly(out.info.params)) =>
        /\ out.ok
        /\ out.info.rows = Window(OrderedSelection(out.info.params),
                                  out.info.params.skip, out.info.params.limit)

----------------------------------------------------------------------------
(* C15: a range(a, b) query without idRange, skip and limit yields exactly *)
(* the rows whose KV key, the emit key followed by the doc id, lies in     *)
(* [a, b), in the order of those keys; so every row whose emit key equals  *)
(* a is yielded and every row whose emit key equals b is not, whatever the *)
(* doc id.                                                                 *)

\* The emit key of a stored row, and the emit key followed by the doc id.
EmitKey(k) == SubSeq(k, Len(getViewKey(Namespace, "v")) + 1, Len(k) - 1)

KeyAndId(k) == SubSeq(k, Len(getViewKey(Namespace, "v")) + 1, Len(k))

\* lo <= t < hi in the order of key tuples.
Within(t, lo, hi) == ~KeyLess(t, lo) /\ KeyLess(t, hi)

InOrder(ks, params) ==
    RowsOf(IF params.descending THEN Reverse(SortKeys(ks)) ELSE SortKeys(ks), params)

Yielded == {out.info.rows[i] : i \in 1..Len(out.info.rows)}

\* A map-only query of the given type has yielded all the rows it selects.
WholeSelection(type) ==
    /\ QueryDone
    /\ out.ok
    /\ ~out.info.reduced
    /\ out.info.params.type = type
    /\ out.info.params.skip = 0
    /\ out.info.params.limit = Infinity

PlainRange ==
    /\ WholeSelection("range")
    /\ out.info.params.startKeyDocId = Absent
    /\ out.info.params.endKeyDocId = Absent

----------------------------------------------------------------------------
(* C16 as stated: a key(k) query yields exactly the rows whose emit key is *)
(* the one-part tuple (k): no row whose emit key is a longer tuple that    *)
(* starts with k, and no row of another key.                               *)

C16_AsStated ==
    WholeSelection("key") =>
        LET params == out.info.params
        IN  out.info.rows =
              InOrder({k \in RowKeys(kv, params.viewName) :
                         EmitKey(k) = <<params.key>>},
                      params)

----------------------------------------------------------------------------
(* C17: a prefix(p) query yields exactly the rows whose emit key begins    *)
(* with the parts of p, and so no row whose emit key is shorter than p,    *)
(* not even the row whose emit key followed by its doc id is p.            *)

C17_PrefixOverEmitKeys ==
    WholeSelection("prefix") =>
        LET params == out.info.params
        IN  /\ out.info.rows =
                 InOrder({k \in RowKeys(kv, params.viewName) :
                            HasPrefix(EmitKey(k), params.prefix)},
                         params)
            /\ \A r \in Yielded : Len(r.key) >= Len(params.prefix)

\* A prefix has yielded rows while the view holds a row whose emit key
\* followed by its doc id is the prefix.
C17_Witness ==
    /\ WholeSelection("prefix")
    /\ Yielded # {}
    /\ \E k \in RowKeys(kv, out.id) : KeyAndId(k) = out.info.params.prefix

----------------------------------------------------------------------------
(* C18: when all rows in range(s, e) share one single-part emit key and s  *)
(* is the tuple of that key, the pages of limit m >= 1, the first queried  *)
(* with range(s, e).limit(m) and each next one with                        *)
(* range(s, e).idRange(lastId, "").skip(1).limit(m), lastId the id of the  *)
(* last row of the page before, are pairwise disjoint, each in the order   *)
(* of the doc ids, and together they are the rows of the range.            *)

\* The query of a page: the first one when lastId is Absent.
PageQuery(s, e, lastId, m) ==
    LET first == WithLimit(WithRange(Q0, s, e), JsInt(m))
    IN  IF lastId = Absent THEN first
        ELSE WithSkip(WithIdRange(first, lastId, ""), JsInt(1))

\* The rows a query yields when it does not throw.
RowsYielded(b) ==
    LET o == CHOOSE x \in QueryOutcomes("p1", b) : x.ok
    IN  o.info.rows

\* The pages up to the first empty one, at most n of them.
RECURSIVE Pages(_, _, _, _, _)
Pages(s, e, m, lastId, n) ==
    LET page == RowsYielded(PageQuery(s, e, lastId, m))
    IN  IF n = 0 \/ page = <<>> THEN <<>>
        ELSE <<page>> \o Pages(s, e, m, page[Len(page)].id, n - 1)

RowSet(rows) == {rows[i] : i \in 1..Len(rows)}

\* The stored rows of the range.
RangeKeys(s, e) == {k \in RowKeys(kv, "v") : Within(KeyAndId(k), s, e)}

\* All rows of the range share one single-part emit key.
OneSharedKey(s, e) ==
    /\ RangeKeys(s, e) # {}
    /\ \A k1, k2 \in RangeKeys(s, e) : EmitKey(k1) = EmitKey(k2) /\ Len(EmitKey(k1)) = 1

\* s is the tuple of the key the rows share.
StartsAtSharedKey(s, e) == \A k \in RangeKeys(s, e) : EmitKey(k) = s

\* A query of a page has yielded its rows.
PageDone ==
    /\ QueryDone
    /\ out.ok
    /\ ~out.info.reduced
    /\ out.info.params.type = "range"
    /\ ~out.info.params.descending
    /\ out.info.params.limit.t = "num"
    /\ \/ /\ out.info.params.skip = 0
          /\ out.info.params.startKeyDocId = Absent
          /\ out.info.params.endKeyDocId = Absent
       \/ /\ out.info.params.skip = 1
          /\ out.info.params.startKeyDocId # Absent
          /\ out.info.params.endKeyDocId = ""

\* The pages are disjoint, in doc id order and cover the range, and the
\* query that has returned yielded the page that is its turn.
PagesCover(s, e, m) ==
    LET pages == Pages(s, e, m, Absent, Cardinality(RangeKeys(s, e)) + 1)
        lastId == out.info.params.startKeyDocId
        before == {i \in 1..Len(pages) : pages[i][Len(pages[i])].id = lastId}
    IN  /\ \A i, j \in 1..Len(pages) :
             i # j => RowSet(pages[i]) \cap RowSet(pages[j]) = {}
        /\ \A i \in 1..Len(pages) :
             \A x, y \in 1..Len(pages[i]) :
                x < y => Rank(pages[i][x].id) < Rank(pages[i][y].id)
        /\ UNION {RowSet(pages[i]) : i \in 1..Len(pages)} =
              {RowOf(k, out.info.params) : k \in RangeKeys(s, e)}
        /\ lastId = Absent => out.info.rows = pages[1]
        /\ \A i \in before :
             out.info.rows = IF i < Len(pages) THEN pages[i + 1] ELSE <<>>

C18_CursorPagination ==
    (/\ PageDone
     /\ out.info.params.limit # JsInt(0)
     /\ OneSharedKey(out.info.params.startKey, out.info.params.endKey)
     /\ StartsAtSharedKey(out.info.params.startKey, out.info.params.endKey)) =>
        PagesCover(out.info.params.startKey, out.info.params.endKey,
                   Trunc(out.info.params.limit.h))

\* C18 as stated: for every s and every m.
C18_AsStated ==
    (/\ PageDone
     /\ OneSharedKey(out.info.params.startKey, out.info.params.endKey)) =>
        PagesCover(out.info.params.startKey, out.info.params.endKey,
                   Trunc(out.info.params.limit.h))

\* The query of the second page has yielded the second of two rows.
C18_Witness ==
    /\ PageDone
    /\ out.info.params.limit = JsInt(1)
    /\ out.info.params.startKeyDocId = "a"
    /\ OneSharedKey(out.info.params.startKey, out.info.params.endKey)
    /\ StartsAtSharedKey(out.info.params.startKey, out.info.params.endKey)
    /\ Cardinality(RangeKeys(out.info.params.startKey, out.info.params.endKey)) = 2
    /\ Len(out.info.rows) = 1
    /\ out.info.rows[1].id = "b"

----------------------------------------------------------------------------
(* C19 as stated: a reduce query without skip and limit, a scan or a       *)
(* range, of a view with a reduce function yields one row per distinct     *)
(* group key of the selected rows (one key for all rows when no group      *)
(* level is set, the emit key at level 0, its first n parts at level n),   *)
(* the row's key being the group key, or null for the group of all rows,   *)
(* and the reduce function being given exactly the rows of that group key. *)

\* The stored rows a scan or a range without doc ids selects.
SelectionOf(params) ==
    IF params.type = "scan" THEN RowKeys(kv, params.viewName)
    ELSE {k \in RowKeys(kv, params.viewName) :
            Within(KeyAndId(k), params.startKey, params.endKey)}

\* The group key of a row, as a tuple.
GroupKeyOf(k, params) ==
    IF ~params.hasGroupLevel THEN <<"<null>">>
    ELSE IF params.groupLevel = 0 THEN EmitKey(k)
    ELSE Take(EmitKey(k), params.groupLevel)

\* A group: its key and the (emit key, doc id) pairs given to the reducer.
GroupOf(g, ks, params) ==
    [key |-> g,
     members |-> {<<EmitKey(k), k[Len(k)]>> : k \in {x \in ks : GroupKeyOf(x, params) = g}}]

ReduceDone ==
    /\ QueryDone
    /\ out.ok
    /\ out.info.reduced
    /\ out.info.params.type \in {"scan", "range"}
    /\ out.info.params.skip = 0
    /\ out.info.params.limit = Infinity

C19_AsStated ==
    ReduceDone =>
        LET params == out.info.params
            ks == SelectionOf(params)
            groupKeys == {GroupKeyOf(k, params) : k \in ks}
        IN  /\ Len(out.info.rows) = Cardinality(groupKeys)
            /\ {[key |-> r.key, members |-> RowSet(r.value)] : r \in Yielded} =
                  {GroupOf(g, ks, params) : g \in groupKeys}
            /\ \A r \in Yielded : Len(r.value) = Cardinality(RowSet(r.value))

----------------------------------------------------------------------------
(* C20: a query of a view name that is not in the registry throws          *)
(* UndefinedView whatever its shape, keys included, and reads no entry of  *)
(* the store; a keys query of a registered view throws NotImplemented and  *)
(* yields no row.                                                          *)

C20_QueryErrors ==
    /\ (QueryDone /\ ~ViewKnown) =>
          /\ ~out.ok
          /\ out.error = "UndefinedView"
          /\ out.info.entries = <<>>
          /\ out.info.rows = <<>>
    /\ (QueryDone /\ ViewKnown /\ out.info.params.type = "keys") =>
          /\ ~out.ok
          /\ out.error = "NotImplemented"
          /\ out.info.rows = <<>>

\* A keys query of a view that is not registered has thrown UndefinedView
\* over a store that holds a document.
C20_Witness ==
    /\ QueryDone
    /\ ~ViewKnown
    /\ out.info.params.type = "keys"
    /\ out.error = "UndefinedView"
    /\ \E id \in AllIds : Present(kv, DocKey(id))

----------------------------------------------------------------------------
(* C21: on a store that holds the data of a database of another namespace, *)
(* with the same document id and view name, no step of this database       *)
(* changes an entry of the other namespace, and none reads one: get        *)
(* returns only what this database wrote, an insert of the id the other    *)
(* holds is no duplicate, defineView does not take the other's design      *)
(* record for its own, a query reads entries of its own namespace only,    *)
(* and the rows of a view are the map of this database's documents.  The   *)
(* other database runs the same code with the namespaces exchanged.        *)

\* The entries of the store whose key begins with a namespace.
OfNamespace(store, namespace) ==
    [k \in {x \in DOMAIN store : x[1] = namespace} |-> store[k]]

C21_NamespaceIsolation ==
    [][ /\ OfNamespace(kv', OtherNamespace) = OfNamespace(kv, OtherNamespace)
        /\ Returns("get") => out'.doc = Written(lastWrite[out'.id], out'.id)
        /\ (Throws({"insert"}) /\ out'.error = "DuplicateDocument") =>
              lastWrite[out'.id].op \in {"insert", "replace"}
        /\ Returns("defineView") =>
              (out'.info.before = NoDesign => out'.info.wrote)
        /\ Returns("query") =>
              /\ \A i \in 1..Len(out'.info.entries) :
                    out'.info.entries[i][1] = Namespace
              /\ \A i \in 1..Len(out'.info.rows) :
                    out'.info.reduced \/ out'.info.rows[i].key # <<"Bob">>
                    \/ lastWrite[out'.info.rows[i].id].body.name = "Bob"
        /\ (pc'["p1"] = "idle" /\ views' # <<>>) =>
              RowPairs(kv', "v") = MapPairs(Registered("v")', kv')
      ]_vars

\* A rebuild of the view has returned and a query of it has yielded a row,
\* with the other namespace's entries in the store.
C21_Witness ==
    /\ QueryDone
    /\ out.ok
    /\ Len(out.info.rows) > 0
    /\ \E i \in 1..Len(views) : DesignValue(kv, views[i].name).state = "ready"
    /\ OfNamespace(kv, OtherNamespace) = OtherStore
    /\ OfNamespace(kv, Namespace) # <<>>

----------------------------------------------------------------------------
(* C22 as stated: an insert that commits stores the document under the     *)
(* payload's _id whenever the payload has one, the empty string included,  *)
(* and returns that id; it takes a fresh random id only when the payload   *)
(* has no _id.                                                             *)

\* The step in which insert(doc) commits.
InsertCommits(p, doc) == Insert(p, doc) /\ pc'[p] = "uv_next"

C22_AsStated ==
    [][ \A doc \in SequentialInputs.payloads :
          InsertCommits("p1", doc) =>
            LET id == loc'["p1"].docId
            IN  /\ Present(kv', DocKey(id))
                /\ kv'[DocKey(id)].value._id = id
                /\ IF doc._id # Absent THEN id = doc._id
                   ELSE id \in UUIDs /\ lastWrite[id] = NoWrite
      ]_vars

----------------------------------------------------------------------------
(* C23 as stated: when no call is running, a view holds one row for every  *)
(* call its map function makes of emit on a stored document, calls with    *)
(* the same key included, and a reduce over the view is given as many      *)
(* entries.                                                                *)

\* The calls of emit the map function makes over the stored documents.
EmitCalls(mapper, store) ==
    {<<id, i>> \in AllIds \X (1..2) :
        /\ Present(store, DocKey(id))
        /\ i <= Len(Emissions(mapper, GetValue(store, id)))}

C23_AsStated ==
    (pc["p1"] = "idle" /\ views # <<>>) =>
        /\ Cardinality(RowKeys(kv, "v")) = Cardinality(EmitCalls(Registered("v"), kv))
        /\ (ReduceDone /\ out.info.params.type = "scan"
                       /\ ~out.info.params.hasGroupLevel
                       /\ out.info.rows # <<>>) =>
              Len(out.info.rows[1].value) = Cardinality(EmitCalls(Registered("v"), kv))

----------------------------------------------------------------------------
(* C24 as stated: with the views defined beforehand and the mutations of   *)
(* several callers interleaving at every await, once all calls have        *)
(* returned the rows of every view are the map of the stored documents,    *)
(* and a document that is not stored has no row and no back-reference.     *)

\* The stored rows of a view whose trailing part is id.
RowsOfDoc(store, viewName, id) ==
    {k \in RowKeys(store, viewName) : k[Len(k)] = id}

C24_AsStated ==
    AllIdle =>
        \A i \in 1..Len(views) :
            /\ RowPairs(kv, views[i].name) = MapPairs(views[i].map, kv)
            /\ \A id \in AllIds :
                 ~Present(kv, DocKey(id)) =>
                    /\ RowsOfDoc(kv, views[i].name, id) = {}
                    /\ ~Present(kv, getViewRefKey(Namespace, views[i].name, id))

----------------------------------------------------------------------------
(* C25 as stated: in every state, between the steps of interleaved         *)
(* mutations too, the keys the back-reference of a view and a document id  *)
(* names are exactly the keys of the stored rows of the view whose         *)
(* trailing part is the id: no row that no back-reference names, and no    *)
(* named key without a row.                                                *)

\* The keys the back-reference of a view and a document names.
NamedRows(store, viewName, id) ==
    LET refKey == getViewRefKey(Namespace, viewName, id)
    IN  IF Present(store, refKey)
        THEN {store[refKey].value[i] : i \in 1..Len(store[refKey].value)}
        ELSE {}

C25_AsStated ==
    \A i \in 1..Len(views) :
        \A id \in AllIds :
            NamedRows(kv, views[i].name, id) = RowsOfDoc(kv, views[i].name, id)

----------------------------------------------------------------------------
(* C26 as stated: a reduce query with skip n and limit m yields groups     *)
(* [n, n + m) of the groups of its whole selection, in the order in which  *)
(* they are met, each with the value the reduce function has over all the  *)
(* rows of the group, the value the group has without skip and limit.      *)

\* The rows of a reduce query run without skip and limit.
UnwindowedRows(params) ==
    LET viewPrefix == getViewKey(Namespace, params.viewName)
        viewDef == CHOOSE d \in ViewDefs(views, params.viewName) : TRUE
        whole == [params EXCEPT !.skip = 0, !.limit = Infinity]
        entries == ListEntries(kv, Selector(whole, viewPrefix), whole.descending,
                               ListLimit(whole))
    IN  ReduceRows(kv, Groups(entries, whole, Len(viewPrefix), <<>>),
                   viewDef.reduce, whole, Len(viewPrefix))

C26_AsStated ==
    (/\ QueryDone
     /\ out.ok
     /\ out.info.reduced
     /\ out.info.params.type \in {"scan", "range"}) =>
        out.info.rows = Window(UnwindowedRows(out.info.params),
                               out.info.params.skip, out.info.params.limit)

----------------------------------------------------------------------------
(* C27 as stated: while a rebuild of a view runs, the design record of the *)
(* view is stored with the state building, and no second rebuild of the    *)
(* view runs beside it.                                                    *)

\* Caller p is inside rebuildView.
Rebuilding(p) == pc[p] \in {"rb_delete", "rb_docs", "rb_map", "rb_ready"}

C27_AsStated ==
    \A p \in Procs :
        Rebuilding(p) =>
            /\ DesignValue(kv, loc[p].viewName).state = "building"
            /\ \A q \in Procs \ {p} :
                 ~(Rebuilding(q) /\ loc[q].viewName = loc[p].viewName)

----------------------------------------------------------------------------
(* C28 as stated: whatever the interleaving of defineView calls for one    *)
(* name with different map functions, once all calls have returned the     *)
(* design record of the view carries the signature of the map function in  *)
(* the registry, and the stored rows are those of that function.           *)

C28_AsStated ==
    AllIdle =>
        \A i \in 1..Len(views) :
            /\ DesignValue(kv, views[i].name).signature = hashFunction(views[i].map)
            /\ RowPairs(kv, views[i].name) = MapPairs(views[i].map, kv)

----------------------------------------------------------------------------
(* C29 as stated: the views a mutation updates, and the map function it    *)
(* runs for each, are those of the registry as it is when the mutation's   *)
(* view maintenance starts: a defineView that interleaves with the         *)
(* mutation adds no view to its updates and changes no map function of     *)
(* them.                                                                   *)

\* The names and map functions of a registry.
Mappers(registry) ==
    {[name |-> registry[i].name, map |-> registry[i].map] : i \in 1..Len(registry)}

C29_AsStated ==
    \A p \in Procs :
        pc[p] = "uv_commit" =>
            [name |-> loc[p].viewName, map |-> loc[p].mapper]
                \in Mappers(loc[p].registry)

----------------------------------------------------------------------------
(* C30: while one mutation of a document runs and no other is in flight,   *)
(* every step leaves the rows and the back-reference of each view for the  *)
(* document as they were, or replaces them in one step by exactly those    *)
(* of the new value; so in every state in between each view is on one side *)
(* or the other, the views the loop has passed on the side of the new      *)
(* value.                                                                  *)

\* What a view holds for a document: its rows and its back-reference.
ViewPart(store, viewName, id) ==
    [rows |-> {<<k, store[k].value>> : k \in RowsOfDoc(store, viewName, id)},
     hasRef |-> Present(store, getViewRefKey(Namespace, viewName, id)),
     ref |-> IF Present(store, getViewRefKey(Namespace, viewName, id))
             THEN store[getViewRefKey(Namespace, viewName, id)].value
             ELSE <<>>]

\* What a view holds for a document of value doc, null when it was removed.
PartOf(viewName, mapper, doc, id) ==
    LET es == Emissions(mapper, doc)
        key(i) == getViewKey(Namespace, viewName) \o keyParts(es[i].key) \o <<id>>
    IN  IF doc = NullDoc THEN [rows |-> {}, hasRef |-> FALSE, ref |-> <<>>]
        ELSE [rows |-> {<<key(i), RowPayload(es[i].value, doc)>> : i \in 1..Len(es)},
              hasRef |-> TRUE,
              ref |-> [i \in 1..Len(es) |-> key(i)]]

\* Caller p is inside updateViewsForDoc.
Maintaining(p) == pc[p] \in {"uv_next", "uv_commit"}

C30_PerViewAtomicity ==
    [][ \A i \in 1..Len(views) :
          LET name == views[i].name
              p == "p1"
          IN  /\ \A id \in AllIds :
                   \/ ViewPart(kv', name, id) = ViewPart(kv, name, id)
                   \/ /\ pc[p] = "uv_commit"
                      /\ loc[p].viewName = name
                      /\ loc[p].docId = id
                      /\ ViewPart(kv', name, id) =
                            PartOf(name, views[i].map, loc[p].doc, id)
              /\ (Maintaining(p)' /\ i < loc'[p].next) =>
                    ViewPart(kv', name, loc'[p].docId) =
                       PartOf(name, views[i].map, loc'[p].doc, loc'[p].docId)
      ]_vars

\* A replace has updated the first view and not yet the second, which holds
\* the row of the value that was replaced.
C30_Witness ==
    /\ Maintaining("p1")
    /\ loc["p1"].handler = "replace"
    /\ loc["p1"].next = 2
    /\ ViewPart(kv, "v", "a") = PartOf("v", "byName", loc["p1"].doc, "a")
    /\ ViewPart(kv, "w", "a") # PartOf("w", "byTypeName", loc["p1"].doc, "a")
    /\ ViewPart(kv, "w", "a").rows # {}

----------------------------------------------------------------------------
(* C31 as stated: every atomic commit a rebuild issues, in its delete      *)
(* phase and in its map phase, holds at most BATCH_SIZE operations.        *)

\* The operations of the commit the delete loop of caller p issues next,
\* none when its next KV operation is not a commit.
DeleteCommit(p) ==
    LET l == loc[p]
        n == Min(Len(l.buf), BATCH_SIZE - l.count)
        batch == l.batch \o DeleteBatch(l.buf, n)
    IN  IF l.count + n >= BATCH_SIZE \/ (l.prefix = 2 /\ l.count + n > 0)
        THEN batch ELSE <<>>

\* The operations of the commit the map loop of caller p issues next.
MapCommit(p) ==
    LET l == loc[p]
    IN  MapLoop(l.viewName, l.mapper, l.buf, l.batch, l.count, 0).batch

C31_AsStated ==
    [][ \A p \in Procs :
          /\ RebuildDelete(p) /\ kv' # kv => Len(DeleteCommit(p)) <= BATCH_SIZE
          /\ RebuildMap(p) /\ pc'[p] # "rb_done" => Len(MapCommit(p)) <= BATCH_SIZE
      ]_vars

----------------------------------------------------------------------------
(* C32 as stated: with one caller defining a view and another mutating a   *)
(* stored document while the view is rebuilt, once both calls have         *)
(* returned the row keys and the back-reference of the view for every      *)
(* document are those of the stored value, and there are none for a        *)
(* document that was removed.                                              *)

\* The row keys a view holds for the value stored under id.
KeysOfStored(store, viewName, mapper, id) ==
    IF Present(store, DocKey(id))
    THEN LET keys == EmittedKeys(getViewKey(Namespace, viewName), mapper,
                                 GetValue(store, id), id)
         IN  {keys[i] : i \in 1..Len(keys)}
    ELSE {}

C32_AsStated ==
    AllIdle =>
        \A i \in 1..Len(views), id \in DocIds :
            /\ RowsOfDoc(kv, views[i].name, id)
                  = KeysOfStored(kv, views[i].name, views[i].map, id)
            /\ NamedRows(kv, views[i].name, id)
                  = KeysOfStored(kv, views[i].name, views[i].map, id)
            /\ Present(kv, getViewRefKey(Namespace, views[i].name, id))
                  = Present(kv, DocKey(id))

----------------------------------------------------------------------------
(* C33 as stated: once the calls have returned, a view maintained through  *)
(* the mutations and a view with the same map function built afterwards by *)
(* a rebuild hold the same row keys, the same back-references and the same *)
(* row payloads {value, doc}, the document's _rev included.                *)

\* What a view holds, without the view's name: its rows as (emit key, doc
\* id) with their payloads, and its back-references per document id.
ViewImage(store, viewName) ==
    [rows |-> {<<RowPair(k), store[k].value>> : k \in RowKeys(store, viewName)},
     refs |-> {<<id, [i \in 1..Len(store[getViewRefKey(Namespace, viewName, id)].value) |->
                        RowPair(store[getViewRefKey(Namespace, viewName, id)].value[i])]>> :
               id \in {d \in AllIds :
                         Present(store, getViewRefKey(Namespace, viewName, d))}}]

\* Views v and w are both registered, with the same map function.
BothPaths ==
    /\ AllIdle
    /\ Len(views) = 2
    /\ views[1].map = views[2].map

C33_AsStated ==
    BothPaths => ViewImage(kv, views[1].name) = ViewImage(kv, views[2].name)

----------------------------------------------------------------------------
(* C34 as stated: the parameters of a key or a prefix query carry no group *)
(* level; a reduce query of these shapes, whatever group level it was      *)
(* built with, yields at most one row, whose key is null and whose value   *)
(* is the reduce function over all the rows the query selects, and no row  *)
(* when it selects none.                                                   *)

\* A reduce query of a key or of a prefix has run.
KeyReduceDone ==
    /\ QueryDone
    /\ out.ok
    /\ out.info.reduced
    /\ out.info.params.type \in {"key", "prefix"}

\* The (emit key, doc id) pairs of the stored rows under the key or the
\* prefix of the query.
KeySelection(params) ==
    LET ks == Selected(kv, Selector(params, getViewKey(Namespace, params.viewName)))
    IN  {<<EmitKey(k), k[Len(k)]>> : k \in ks}

C34_AsStated ==
    KeyReduceDone =>
        /\ "groupLevel" \notin DOMAIN out.info.params
        /\ Len(out.info.rows) <= 1
        /\ \A r \in Yielded :
              /\ r.key = <<"<null>">>
              /\ RowSet(r.value) = KeySelection(out.info.params)
        /\ KeySelection(out.info.params) = {} => out.info.rows = <<>>

----------------------------------------------------------------------------
(* C35: in every state the value stored under a document key (N, "doc", D) *)
(* holds no _rev and has _id = D, whatever _id and _rev the payloads given *)
(* to insert and replace carried.                                          *)

C35_StoredShape ==
    \A k \in DOMAIN kv :
        IsDocKey(k) =>
            /\ kv[k].value._rev = NullStamp
            /\ kv[k].value._id = k[Len(k)]

\* The document with the generated id is stored as a replace wrote it: no
\* payload carries that id, so the payload's _id was another one or none.
C35_Witness ==
    \E id \in UUIDs :
        /\ Present(kv, DocKey(id))
        /\ lastWrite[id].op = "replace"
        /\ kv[DocKey(id)].value.body = lastWrite[id].body

====
